---- MODULE Spec2Model ----
(***************************************************************************)
(* Parallel bzip2 decompression (cosnicolaou/pbzip2): the Decompressor     *)
(* pipeline of parallel.go (Append, workers, assemble, Finish, Cancel) and *)
(* the Reader facade (NewReader, decompress, scan, Read) that drives it.   *)
(*                                                                         *)
(* Data representation.  A 32-bit word is the pair <<hi, lo>> of its two   *)
(* 16-bit halves.  Compressed data is a sequence of 16-bit tokens; a bit   *)
(* offset or a size "in bits" counts tokens.  A block payload, the data    *)
(* that follows a block magic, is                                          *)
(*     <<crc_hi, crc_lo, c_1, ..., c_k, EndSym>>                           *)
(* its stored CRC, its content and the end-of-block symbol; its plaintext  *)
(* is c_1 .. c_k and its CRC is Checksum of the plaintext.                 *)
(***************************************************************************)
EXTENDS Integers, Sequences, FiniteSets, TLC

\* ------------------------------------------------------------------ bounds

\* The largest BZConcurrency value explored.
MaxConcurrency == 2
\* Length of the buffer the caller passes to Read.
ReadBufLen == 2
\* Capacity of the progress channel handed to BZSendUpdates.
ProgCap == 1
\* Number of tokens put in the pool by CreateConcurrencyPool.
PoolSize == 1

\* The calls of Scan made on a scanner driven by hand.
MaxScanCalls == 6

\* ------------------------------------------------------------ 32-bit words

Half == 2 ^ 16
TopBit == 2 ^ 15
Zero32 == <<0, 0>>

RECURSIVE Xor16(_, _, _)
Xor16(a, b, n) ==
    IF n = 0 THEN 0
    ELSE ((a + b) % 2) + 2 * Xor16(a \div 2, b \div 2, n - 1)

Xor32(x, y) == <<Xor16(x[1], y[1], 16), Xor16(x[2], y[2], 16)>>

\* x<<1 | x>>31 on a 32-bit word.
Rotl1(x) ==
    <<((2 * x[1]) % Half) + (x[2] \div TopBit),
      ((2 * x[2]) % Half) + (x[1] \div TopBit)>>

\* A mutant of updateStreamCRC: the bit shifted out is dropped (x<<1 only).
updateStreamCRCNoCarry(stream, blockCRC) ==
    Xor32(<<((2 * stream[1]) % Half) + (stream[2] \div TopBit),
            (2 * stream[2]) % Half>>, blockCRC)

updateStreamCRC(stream, blockCRC) == Xor32(Rotl1(stream), blockCRC)

\* ------------------------------------------------------------ block codec

\* The end-of-block symbol of the block's symbol stream.
EndSym == 0
\* The block magic, one token.
BlockMagicTok == 7
blockMagic == <<BlockMagicTok>>
\* Tokens of the 32-bit CRC that follows a block magic.
CrcLen == 2

RECURSIVE SumSeq(_)
SumSeq(s) == IF s = <<>> THEN 0 ELSE Head(s) + SumSeq(Tail(s))

\* The block CRC of a plaintext.
Checksum(plain) == <<(TopBit + SumSeq(plain)) % Half, Len(plain)>>

RECURSIVE FirstEnd(_, _)
\* Index of the first EndSym of s at or after index i, 0 when there is none.
FirstEnd(s, i) ==
    IF i > Len(s) THEN 0
    ELSE IF s[i] = EndSym THEN i
    ELSE FirstEnd(s, i + 1)

\* readCRC: the 32 bits at the bit offset of a block; 0 for a short block.
readCRC(block, shift) ==
    IF Len(block) < shift + CrcLen THEN Zero32
    ELSE <<block[shift + 1], block[shift + 2]>>

\* io.ReadAll(bzip2.NewBlockReader(blockSize, data, bitOffset)):
\* the plaintext read and the error (ReadAll maps EOF to nil).
DecodeData(data, bitOffset) ==
    IF Len(data) = 0 THEN [plain |-> <<>>, err |-> "nil"]
    ELSE LET s == SubSeq(data, bitOffset + 1, Len(data))
             e == FirstEnd(s, CrcLen + 1)
         IN  IF Len(s) < CrcLen \/ e = 0
             THEN [plain |-> <<>>, err |-> "bzip2 data invalid"]
             ELSE LET plain == SubSeq(s, CrcLen + 1, e - 1)
                  IN  IF Checksum(plain) # <<s[1], s[2]>>
                      THEN [plain |-> plain, err |-> "block checksum mismatch"]
                      ELSE [plain |-> plain, err |-> "nil"]

\* blockDesc.decompress
decompress(b) ==
    LET r == DecodeData(b.Data, b.BitOffset)
    IN  [b EXCEPT !.uncompressed = r.plain, !.err = r.err]

\* BitWriter.Init(data, lenBits, hint).  The buffer holds the bytes of data;
\* the bits of its last byte beyond lenBits are masked out by the next Append,
\* so the accumulator starts as the first lenBits bits of data.
BitWriterInit(data, lenBits) ==
    [buf |-> SubSeq(data, 1, lenBits), lenInBits |-> lenBits]

\* BitWriter.Append(data, offsetBits, lenBits): data is shifted so that bit
\* offsetBits follows the accumulated bits and all of it is appended; the
\* length grows by lenBits.
BitWriterAppend(bw, data, offsetBits, lenBits) ==
    [buf |-> bw.buf \o SubSeq(data, offsetBits + 1, Len(data)),
     lenInBits |-> bw.lenInBits + lenBits]

\* bzip2.reader.readBlock on the bits of src from bit start: the CRC stored
\* after the block magic and the decoded bytes (tt), or the decoder's error.
ReadBlock(src, start) ==
    LET s == SubSeq(src, start + 1, Len(src))
        e == FirstEnd(s, CrcLen + 1)
    IN  IF Len(s) < CrcLen \/ e = 0
        THEN [err |-> "bzip2 data invalid", want |-> Zero32, tt |-> <<>>]
        ELSE [err |-> "nil", want |-> <<s[1], s[2]>>, tt |-> SubSeq(s, CrcLen + 1, e - 1)]

\* NewBlockReader(blockSize, src, start).  rest: the decoded bytes not yet
\* read; fed: the bytes given to blockCRC.update; n, ret: the result of the
\* last Read ("none" before the first).
NewBlockReader(src, start) ==
    [src |-> src, start |-> start, first |-> Len(src) # 0,
     err |-> IF Len(src) = 0 THEN "EOF" ELSE "nil",
     wantBlockCRC |-> Zero32, rest |-> <<>>, fed |-> <<>>, n |-> 0, ret |-> "none"]

\* Read, from readFromBlock on: opened is the reader with its block read.
ReadFromBlock(opened, len) ==
    IF len > 0 /\ Len(opened.rest) > 0
    THEN [opened EXCEPT
            !.rest = SubSeq(@, (IF len < Len(@) THEN len ELSE Len(@)) + 1, Len(@)),
            !.fed = @ \o SubSeq(opened.rest, 1, IF len < Len(opened.rest) THEN len
                                                 ELSE Len(opened.rest)),
            !.n = IF len < Len(opened.rest) THEN len ELSE Len(opened.rest),
            !.ret = "nil"]
    ELSE IF len = 0 THEN [opened EXCEPT !.n = 0, !.ret = "nil"]
    ELSE IF Checksum(opened.fed) # opened.wantBlockCRC
    THEN [opened EXCEPT !.n = 0, !.ret = "block checksum mismatch"]
    ELSE [opened EXCEPT !.n = 0, !.ret = "EOF"]

\* A mutant of BlockReaderRead: the CRC stored is taken for the one computed.
BlockReaderReadUnchecked(br, len) ==
    IF br.err # "nil" THEN [br EXCEPT !.n = 0, !.ret = br.err]
    ELSE IF ~br.first THEN ReadFromBlock([br EXCEPT !.wantBlockCRC = Checksum(br.fed \o br.rest)], len)
    ELSE IF ReadBlock(br.src, br.start).err # "nil"
    THEN [br EXCEPT !.n = 0, !.ret = ReadBlock(br.src, br.start).err]
    ELSE ReadFromBlock([br EXCEPT !.first = FALSE,
                                  !.wantBlockCRC = Checksum(ReadBlock(br.src, br.start).tt),
                                  !.rest = ReadBlock(br.src, br.start).tt], len)

\* BlockReader.Read(buf), len: len(buf).
BlockReaderRead(br, len) ==
    IF br.err # "nil" THEN [br EXCEPT !.n = 0, !.ret = br.err]
    ELSE IF ~br.first THEN ReadFromBlock(br, len)
    ELSE IF ReadBlock(br.src, br.start).err # "nil"
    THEN [br EXCEPT !.n = 0, !.ret = ReadBlock(br.src, br.start).err]
    ELSE ReadFromBlock([br EXCEPT !.first = FALSE,
                                  !.wantBlockCRC = ReadBlock(br.src, br.start).want,
                                  !.rest = ReadBlock(br.src, br.start).tt], len)

\* ------------------------------------------- bytes and the bit stream
\* A byte slice is a sequence of numbers 0..255; the bits of a byte flow from
\* its most significant bit.

FileMagic == <<66, 90>>
BlockMagic == <<49, 65, 89, 38, 83, 89>>
EOSMagic == <<23, 114, 69, 56, 80, 144>>

\* input[from:to] of Go, on indices from 0.
Slice(s, from, to) == SubSeq(s, from + 1, to)

\* bytes.HasPrefix
HasPrefix(s, prefix) ==
    Len(s) >= Len(prefix) /\ SubSeq(s, 1, Len(prefix)) = prefix

\* bitstream.ShiftRight: one bit to the right, with carry between bytes.
ShiftRight(input) ==
    [pos \in 1 .. Len(input) |->
        IF pos = 1 THEN input[1] \div 2
        ELSE (input[pos] \div 2) + 128 * (input[pos - 1] % 2)]

RECURSIVE ShiftRightBy(_, _)
ShiftRightBy(input, n) ==
    IF n <= 0 THEN input ELSE ShiftRightBy(ShiftRight(input), n - 1)

\* Bit i (from 0) of a byte slice; the bits after its end read as 0.
BitAt(input, i) ==
    IF i \div 8 >= Len(input) THEN 0
    ELSE (input[(i \div 8) + 1] \div (2 ^ (7 - (i % 8)))) % 2

\* The bits i .. i+n-1 of a byte sequence.
BitsOf(bytes, i, n) == [k \in 1 .. n |-> BitAt(bytes, i + k - 1)]

\* The lookup of firstBlockMagicLookup for the 4 bytes w: the shift s at
\* which the bits s..31 of w are the first 32-s bits of the block magic
\* (-1: not in the table).  The table has one entry for each such w.
FirstWordShift(w) ==
    LET fits(s) == \A t \in s .. 31 : BitAt(w, t) = BitAt(BlockMagic, t - s)
    IN  IF \E s \in 0 .. 7 : fits(s)
        THEN CHOOSE s \in 0 .. 7 : fits(s) /\ \A u \in (s + 1) .. 7 : ~fits(u)
        ELSE -1

\* The lookup of secondBlockMagicLookup for the 4 bytes w gives s: the first
\* 16+s bits of w are the last 16+s bits of the block magic.
SecondWordHasShift(w, s) ==
    \A t \in 0 .. (15 + s) : BitAt(w, t) = BitAt(BlockMagic, 32 + t - s)

\* The second word without the bytes put in for a short end of input.
SecondWordUnpadded(input, pos) ==
    IF Len(input) - pos < 4 THEN <<0, 0, 0, 0>>
    ELSE [k \in 1 .. 4 |-> input[pos + k]]

\* The second word bitstream.Scan loads at index pos of input: nothing with
\* less than 2 bytes left, 0 for the bytes past the end otherwise.
SecondWord(input, pos) ==
    IF Len(input) - pos <= 1 THEN <<0, 0, 0, 0>>
    ELSE [k \in 1 .. 4 |-> IF pos + k <= Len(input) THEN input[pos + k] ELSE 0]

\* The test bitstream.Scan makes with the byte at index p as first byte of
\* the pattern: the shift found, or -1.
MagicShiftAt(input, p) ==
    LET shift == FirstWordShift(Slice(input, p, p + 4))
    IN  IF shift # -1 /\ SecondWordHasShift(SecondWord(input, p + 4), shift)
        THEN shift ELSE -1

\* Init: pretestMagic[b], set for the second byte of the first three bytes
\* of the magic at each of the shifts 0..7.
PretestMagic(b) ==
    \E s \in 0 .. 7 : b = ShiftRightBy(Slice(BlockMagic, 0, 3), s)[2]

\* The loop of bitstream.Scan with input[p] as first byte of the pattern
\* (pos = p + 1): the pretest of input[pos], then the two lookups.
RECURSIVE ScanFrom(_, _)
ScanFrom(input, p) ==
    IF p + 5 > Len(input) THEN <<-1, -1>>
    ELSE IF ~PretestMagic(input[p + 2]) THEN ScanFrom(input, p + 1)
    ELSE IF MagicShiftAt(input, p) # -1 THEN <<p, MagicShiftAt(input, p)>>
    ELSE ScanFrom(input, p + 1)

\* bitstream.Scan: byte offset and bit offset of the first block magic in
\* input, <<-1, -1>> when there is none.
ScanMagic(input) == ScanFrom(input, 0)

RECURSIVE FindUnaligned(_, _, _)
\* The loop of FindTrailingMagicAndCRC: unaligned was shifted p times.
FindUnaligned(unaligned, trailer, p) ==
    IF p >= 7 THEN [crc |-> <<>>, length |-> -1, offsetInBits |-> -1]
    ELSE LET shifted == ShiftRight(unaligned)
         IN  IF HasPrefix(Slice(shifted, 1, 11), trailer)
             THEN [crc |-> Slice(shifted, 7, 11), length |-> 10,
                   offsetInBits |-> 7 - p]
             ELSE FindUnaligned(shifted, trailer, p + 1)

\* A mutant of FindTrailingMagicAndCRC: the aligned trailer only.
FindAlignedMagicAndCRC(buf, trailer) ==
    LET l == Len(buf)
    IN  IF l >= 10 /\ HasPrefix(Slice(buf, l - 10, l), trailer)
        THEN [crc |-> Slice(buf, l - 4, l), length |-> 10, offsetInBits |-> 0]
        ELSE [crc |-> <<>>, length |-> -1, offsetInBits |-> -1]

\* bitstream.FindTrailingMagicAndCRC
FindTrailingMagicAndCRC(buf, trailer) ==
    LET l == Len(buf)
    IN  IF l < 10 THEN [crc |-> <<>>, length |-> -1, offsetInBits |-> -1]
        ELSE IF HasPrefix(Slice(buf, l - 10, l), trailer)
        THEN [crc |-> Slice(buf, l - 4, l), length |-> 10, offsetInBits |-> 0]
        ELSE IF l < 11 THEN [crc |-> <<>>, length |-> -1, offsetInBits |-> -1]
        ELSE FindUnaligned(Slice(buf, l - 11, l), trailer, 0)

\* BitWriter.Init(data, lenBits, sizeHint), on bytes.
BitWriterInitBytes(data, lenBits) == [buf |-> data, lenInBits |-> lenBits]

\* copyAndShiftRight(n, data, lenInBits): data and one more byte, shifted
\* right n times.
copyAndShiftRight(n, data) == ShiftRightBy(data \o <<0>>, n)

\* BitWriter.Append: data as Append aligns it with the trailing bits.
AlignedWith(trailing, data, offsetBits) ==
    IF trailing - offsetBits > 0
    THEN copyAndShiftRight(trailing - offsetBits, data)
    ELSE IF trailing - offsetBits < 0
    THEN Tail(copyAndShiftRight(8 - offsetBits + trailing, data))
    ELSE data

\* BitWriter.Append: the last byte of bw.buf with the first byte of the
\* aligned data after its trailing bits.
Overlap(last, first, trailing) ==
    ((last \div (2 ^ (8 - trailing))) * (2 ^ (8 - trailing)))
        + (first % (2 ^ (8 - trailing)))

\* BitWriter.Append(data, offsetBits, lenBits), on bytes.
BitWriterAppendBytes(bw, data, offsetBits, lenBits) ==
    LET trailing == bw.lenInBits % 8
        aligned == AlignedWith(trailing, data, offsetBits)
    IN  IF trailing = 0
        THEN [buf |-> bw.buf \o (IF offsetBits > 0
                                 THEN Tail(copyAndShiftRight(8 - offsetBits, data))
                                 ELSE data),
              lenInBits |-> bw.lenInBits + lenBits]
        ELSE [buf |-> SubSeq(bw.buf, 1, Len(bw.buf) - 1)
                        \o <<Overlap(bw.buf[Len(bw.buf)], aligned[1], trailing)>>
                        \o Tail(aligned),
              lenInBits |-> bw.lenInBits + lenBits]

\* ------------------------------------------------------------ the scanner
\* Scanner of scanner.go, as a record of its fields; rd is the input not yet
\* consumed (the reader and the buffered reader over it), ret the result of
\* the last Scan ("none" before the first) and panic whether it panicked.

\* ctx.Err() of a cancelled context.
Canceled == "context canceled"

Min3(a, b, c) == CHOOSE m \in {a, b, c} : \A x \in {a, b, c} : m <= x

\* NewScanner: maxPreamble
DefaultMaxPreamble == 30 * 1024

\* sc.rd is the bytes its source has yet to return and readMax the most bytes
\* one Read of the source returns: a bytes.Buffer returns all that is asked.
NewScanner(input) ==
    [rd |-> input, readMax |-> Len(input) + 1, first |-> TRUE, done |-> FALSE, err |-> "nil", eos |-> FALSE,
     buf |-> <<>>, blockCRC |-> <<0, 0, 0, 0>>, bufBitSize |-> 0,
     bufBitOffset |-> 0, prevBitOffset |-> 0, header |-> <<0, 0, 0, 0>>,
     trailer |-> <<0, 0, 0, 0>>, blockSize |-> 0,
     maxPreamble |-> DefaultMaxPreamble, ret |-> "none", panic |-> FALSE]

\* NewScanner over a source that returns at most size bytes for a Read.
NewScannerChunked(input, size) == [NewScanner(input) EXCEPT !.readMax = size]

\* A mutant of parseHeader: the version byte is not looked at.
parseHeaderAnyVersion(buf) ==
    IF Slice(buf, 0, 2) # FileMagic THEN [n |-> -1, err |-> "wrong file magic"]
    ELSE IF buf[4] < 48 \/ buf[4] > 57 THEN [n |-> -1, err |-> "bad block size"]
    ELSE [n |-> 100 * 1000 * (buf[4] - 48), err |-> "nil"]

\* Scanner.parseHeader ('h' is 104, '0' is 48, '9' is 57)
parseHeader(buf) ==
    IF Slice(buf, 0, 2) # FileMagic THEN [n |-> -1, err |-> "wrong file magic"]
    ELSE IF buf[3] # 104 THEN [n |-> -1, err |-> "wrong version"]
    ELSE IF buf[4] < 48 \/ buf[4] > 57 THEN [n |-> -1, err |-> "bad block size"]
    ELSE [n |-> 100 * 1000 * (buf[4] - 48), err |-> "nil"]

\* Scanner.scanHeader: one Read into the 4 bytes of sc.header, which returns
\* what the source gives for it.
scanHeader(sc) ==
    LET n == Min3(4, Len(sc.rd), sc.readMax)
        header == [k \in 1 .. 4 |-> IF k <= n THEN sc.rd[k] ELSE sc.header[k]]
        read == [sc EXCEPT !.rd = Slice(sc.rd, n, Len(sc.rd)), !.header = header]
    IN  IF n = 0 THEN [sc EXCEPT !.err = "failed to read stream header"]
        ELSE IF n # 4 THEN [read EXCEPT !.err = "stream header is too small"]
        ELSE [read EXCEPT !.blockSize = parseHeader(header).n,
                          !.err = parseHeader(header).err]

\* readCRC of scanner.go: the 32 bits at bit shift of block.
ScannerReadCRC(block, shift) ==
    IF Len(block) < 4 THEN <<0, 0, 0, 0>>
    ELSE Slice(ShiftRightBy(Slice(block, 0, 5), 8 - shift), 1, 5)

\* readCRC slices block[:5]: a block of 4 bytes, made with capacity 4, panics.
ReadCRCPanics(block) == Len(block) = 4

\* A mutant of FinishBlock: the bits before the block are counted in its size.
FinishBlockFromByte(sc) ==
    IF ReadCRCPanics(sc.buf) THEN [sc EXCEPT !.panic = TRUE, !.ret = "panic"]
    ELSE [sc EXCEPT
            !.blockCRC = ScannerReadCRC(sc.buf, sc.bufBitOffset),
            !.ret = "true"]

\* The end of Scan and of handleEOF once sc.buf, sc.bufBitOffset and
\* sc.bufBitSize are set: the block CRC, the size less the bits before the
\* block.
FinishBlock(sc) ==
    IF ReadCRCPanics(sc.buf) THEN [sc EXCEPT !.panic = TRUE, !.ret = "panic"]
    ELSE [sc EXCEPT
            !.blockCRC = ScannerReadCRC(sc.buf, sc.bufBitOffset),
            !.bufBitSize = IF sc.prevBitOffset > 0 THEN @ - sc.prevBitOffset ELSE @,
            !.ret = "true"]

\* Scanner.handleEOF
handleEOF(sc, buf) ==
    LET t == FindTrailingMagicAndCRC(buf, EOSMagic)
        data == Slice(buf, 0, Len(buf) - t.length)
    IN  IF t.length = -1
        THEN [sc EXCEPT !.err = "failed to find trailer", !.ret = "false"]
        ELSE FinishBlock([sc EXCEPT
                !.trailer = t.crc,
                !.done = TRUE,
                !.buf = data,
                !.bufBitOffset = sc.prevBitOffset,
                !.bufBitSize = IF t.offsetInBits > 0
                               THEN Len(data) * 8 - 8 + t.offsetInBits
                               ELSE Len(data) * 8])

\* Scan, lines 221-252: the block found may end a stream.  tbuf starts at the
\* 4 bytes before the block magic found.
SkippedEOS(sc, buf, byteOffset) ==
    LET tbuf == Slice(buf, byteOffset - 4, Len(buf))
        t == FindTrailingMagicAndCRC(tbuf, EOSMagic)
    IN  IF byteOffset > 4 /\ parseHeader(tbuf).err = "nil" /\ t.length = 10
        THEN [sc EXCEPT !.header = Slice(tbuf, 0, 4), !.trailer = t.crc,
                        !.eos = TRUE, !.blockSize = parseHeader(tbuf).n]
        ELSE sc

\* Scan from the search for the next block magic in the bytes peeked; eof:
\* the peek reached the end of the input.  sc.blockSize is set on return;
\* nothing before reads it.
ScanBlock(sc, buf, eof, lookahead) ==
    LET found == ScanMagic(buf)
        byteOffset == found[1]
        bitOffset == found[2]
        sz == IF bitOffset > 0 THEN byteOffset + 1 ELSE byteOffset
        marked == SkippedEOS(sc, buf, byteOffset)
        block == [marked EXCEPT
                    !.buf = Slice(buf, 0, sz),
                    !.bufBitOffset = sc.prevBitOffset,
                    !.bufBitSize = byteOffset * 8 + bitOffset]
        done == FinishBlock(block)
    IN  IF byteOffset = -1
        THEN IF ~eof
             THEN [sc EXCEPT !.err = "failed to find next block", !.ret = "false"]
             ELSE handleEOF(sc, buf)
        ELSE IF done.panic THEN done
        ELSE [done EXCEPT
                !.prevBitOffset = bitOffset,
                !.rd = Slice(@, byteOffset + Len(BlockMagic), Len(@))]

\* A mutant of ScanPeek: without the case of the empty stream.
ScanPeekWithoutEmptyCase(sc) ==
    LET lookahead == sc.blockSize + sc.maxPreamble
        eof == Len(sc.rd) < lookahead
        buf == IF eof THEN sc.rd ELSE Slice(sc.rd, 0, lookahead)
        cleared == [sc EXCEPT !.eos = FALSE, !.first = FALSE]
    IN  IF sc.first /\ HasPrefix(buf, BlockMagic)
        THEN ScanBlock([cleared EXCEPT
                            !.rd = Slice(@, Len(BlockMagic), Len(@)),
                            !.bufBitOffset = 0, !.prevBitOffset = 0],
                       Slice(buf, Len(BlockMagic), Len(buf)), eof, lookahead)
        ELSE ScanBlock(cleared, buf, eof, lookahead)

\* Scan after the header: the peek and the special case of the first block.
ScanPeek(sc) ==
    LET lookahead == sc.blockSize + sc.maxPreamble
        eof == Len(sc.rd) < lookahead
        buf == IF eof THEN sc.rd ELSE Slice(sc.rd, 0, lookahead)
        cleared == [sc EXCEPT !.eos = FALSE, !.first = FALSE]
    IN  IF sc.first /\ HasPrefix(buf, BlockMagic)
        THEN ScanBlock([cleared EXCEPT
                            !.rd = Slice(@, Len(BlockMagic), Len(@)),
                            !.bufBitOffset = 0, !.prevBitOffset = 0],
                       Slice(buf, Len(BlockMagic), Len(buf)), eof, lookahead)
        ELSE IF sc.first /\ HasPrefix(buf, EOSMagic)
        THEN [cleared EXCEPT !.ret = "false"]
        ELSE ScanBlock(cleared, buf, eof, lookahead)

\* A mutant of ScanContext: Scan does not look at the context.
ScanContextIgnored(done) == FALSE

\* Scan: the select with case <-ctx.Done() and a default.
ScanContext(done) == done

\* A mutant of ScannerScan: Scan goes on after an error.
ScannerScanAfterError(sc, done) ==
    IF sc.done THEN [sc EXCEPT !.ret = "false"]
    ELSE IF done THEN [sc EXCEPT !.err = Canceled, !.ret = "false"]
    ELSE IF sc.first
    THEN LET h == scanHeader([sc EXCEPT !.err = "nil"])
         IN  IF h.err # "nil" THEN [h EXCEPT !.ret = "false"] ELSE ScanPeek(h)
    ELSE ScanPeek([sc EXCEPT !.err = "nil"])

\* Scanner.Scan(ctx), done: ctx is cancelled.
ScannerScan(sc, done) ==
    IF sc.err # "nil" \/ sc.done THEN [sc EXCEPT !.ret = "false"]
    ELSE IF ScanContext(done) THEN [sc EXCEPT !.err = Canceled, !.ret = "false"]
    ELSE IF sc.first
    THEN LET h == scanHeader(sc)
         IN  IF h.err # "nil" THEN [h EXCEPT !.ret = "false"] ELSE ScanPeek(h)
    ELSE ScanPeek(sc)

\* Scanner.BlockEOS with Scanner.StreamCRC and Scanner.BlockSize: the block
\* of the last Scan.
ScannerBlock(sc) ==
    [Data |-> sc.buf, BitOffset |-> sc.bufBitOffset, SizeInBits |-> sc.bufBitSize,
     CRC |-> sc.blockCRC, EOS |-> sc.eos, StreamCRC |-> sc.trailer,
     StreamBlockSize |-> sc.blockSize]

\* ------------------------------------------------------ scanner inputs
\* A stream is [sel, blocks, crc]: the block-size selector of its header,
\* the bits of each of its blocks (32 CRC bits, then the payload) and the 4
\* bytes of its stream CRC.  Its bytes are the header, each block after a
\* block magic, the EOS magic, the CRC and the padding to a whole byte.

ToBits(bytes) == [i \in 1 .. 8 * Len(bytes) |-> BitAt(bytes, i - 1)]

\* The bytes of a bit sequence, its last byte filled with 0 bits.
FromBits(bits) ==
    [k \in 1 .. ((Len(bits) + 7) \div 8) |->
        LET b(j) == IF 8 * (k - 1) + j <= Len(bits) THEN bits[8 * (k - 1) + j] ELSE 0
        IN  128 * b(1) + 64 * b(2) + 32 * b(3) + 16 * b(4)
            + 8 * b(5) + 4 * b(6) + 2 * b(7) + b(8)]

RECURSIVE BlocksBits(_)
BlocksBits(blocks) ==
    IF blocks = <<>> THEN <<>>
    ELSE ToBits(BlockMagic) \o Head(blocks) \o BlocksBits(Tail(blocks))

StreamBytes(st) ==
    <<66, 90, 104, 48 + st.sel>>
    \o FromBits(BlocksBits(st.blocks) \o ToBits(EOSMagic) \o ToBits(st.crc))

RECURSIVE StreamsBytes(_)
StreamsBytes(streams) ==
    IF streams = <<>> THEN <<>>
    ELSE StreamBytes(Head(streams)) \o StreamsBytes(Tail(streams))

\* The bytes of a block of the toy codec of this model: the block CRC of
\* plain as 4 bytes, plain, and the end symbol.
BlockBytes(plain) ==
    LET c == Checksum(plain)
    IN  <<c[1] \div 256, c[1] % 256, c[2] \div 256, c[2] % 256>> \o plain \o <<EndSym>>

\* A block that fills whole bytes, and one that ends 3 bits into a byte.
WholeBlock(plain) == ToBits(BlockBytes(plain))
OddBlock(plain) == ToBits(BlockBytes(plain)) \o <<1, 0, 1>>

EmptyStream == [sel |-> 9, blocks |-> <<>>, crc |-> <<0, 0, 0, 0>>]
StreamA == [sel |-> 9, blocks |-> <<WholeBlock(<<5>>)>>, crc |-> <<1, 2, 3, 4>>]
StreamB == [sel |-> 5, blocks |-> <<OddBlock(<<6>>), WholeBlock(<<3, 4>>)>>,
            crc |-> <<9, 8, 7, 6>>]
StreamC == [sel |-> 2, blocks |-> <<OddBlock(<<2>>)>>, crc |-> <<4, 4, 4, 4>>]

\* ----------------------------------------------------------------- inputs

\* A CompressedBlock as the scanner emits it.
CompressedBlock(data, bitOffset, sizeInBits, eos, stream) ==
    [Data |-> data, BitOffset |-> bitOffset, SizeInBits |-> sizeInBits,
     CRC |-> readCRC(data, bitOffset), EOS |-> eos, StreamCRC |-> stream]

\* The payload a compressor writes for a plaintext.
Payload(plain) == Checksum(plain) \o plain \o <<EndSym>>

\* A token of the neighbouring magic that shares a byte with a block.
Junk == 9

\* A whole block at bit offset 0, at bit offset 1, and followed by junk bits.
Aligned(plain, eos, scrc) ==
    CompressedBlock(Payload(plain), 0, Len(Payload(plain)), eos, scrc)
Shifted(plain, eos, scrc) ==
    CompressedBlock(<<Junk>> \o Payload(plain), 1, Len(Payload(plain)), eos, scrc)
Padded(plain, eos, scrc) ==
    CompressedBlock(Payload(plain) \o <<Junk>>, 0, Len(Payload(plain)), eos, scrc)

\* The two descriptors of a block whose payload holds the block magic once:
\* the scanner splits <<32784, 3, 4, 7, 5, 0>>, the payload of <<4, 7, 5>>,
\* at the magic.
SplitHead == CompressedBlock(<<32784, 3, 4, Junk>>, 0, 3, FALSE, Zero32)
SplitTail(eos, scrc) == CompressedBlock(<<Junk, 5, EndSym>>, 1, 2, eos, scrc)

\* A block whose content was corrupted: its stored CRC does not match.
Corrupted == CompressedBlock(<<32769, 1, 2, EndSym>>, 0, 4, FALSE, Zero32)

\* The scanner's results explored: the blocks it emits, in order, and the
\* error its last Scan reports ("nil" for none).  Stream CRCs are the
\* values stored in the input's trailers; the one of InputBadStreamCRC has
\* its last byte changed (<<32772, 0>> is the CRC of its stream).
InputOneStream ==
    [blocks |-> <<Aligned(<<1>>, FALSE, Zero32), Shifted(<<2>>, FALSE, Zero32),
                  Aligned(<<3>>, TRUE, <<32771, 4>>)>>,
     scanErr |-> "nil"]
InputTwoStreams ==
    [blocks |-> <<Padded(<<1>>, TRUE, <<32769, 1>>), Shifted(<<2>>, FALSE, Zero32),
                  Aligned(<<3>>, TRUE, <<32775, 2>>)>>,
     scanErr |-> "nil"]
InputBadStreamCRC ==
    [blocks |-> <<Aligned(<<1>>, FALSE, Zero32),
                  Aligned(<<2, 2, 2>>, TRUE, <<32772, 1>>)>>,
     scanErr |-> "nil"]
\* A first stream whose stored stream CRC has its last byte changed, and a
\* second stream of two blocks after it.
InputBadFirstStreamCRC ==
    [blocks |-> <<Padded(<<1>>, TRUE, <<32769, 2>>), Aligned(<<2>>, FALSE, Zero32),
                  Aligned(<<3>>, TRUE, <<32775, 2>>)>>,
     scanErr |-> "nil"]
InputSplit ==
    [blocks |-> <<SplitHead, SplitTail(FALSE, Zero32),
                  Aligned(<<3>>, TRUE, <<32803, 6>>)>>,
     scanErr |-> "nil"]
InputSplitAtEnd ==
    [blocks |-> <<Aligned(<<1>>, FALSE, Zero32), SplitHead,
                  SplitTail(TRUE, <<32786, 0>>)>>,
     scanErr |-> "nil"]
InputCorrupted ==
    [blocks |-> <<Aligned(<<1>>, FALSE, Zero32), Corrupted,
                  Aligned(<<3>>, TRUE, <<32771, 4>>)>>,
     scanErr |-> "nil"]
\* A split block whose stored CRC was changed: its head does not decode
\* ("bzip2 data invalid") and the merged pair has a checksum mismatch.
InputSplitCorrupted ==
    [blocks |-> <<Aligned(<<1>>, FALSE, Zero32),
                  CompressedBlock(<<32785, 3, 4, Junk>>, 0, 3, FALSE, Zero32),
                  SplitTail(TRUE, <<32786, 0>>)>>,
     scanErr |-> "nil"]
\* A corrupted block that is the last of the input.
InputCorruptedLast ==
    [blocks |-> <<Aligned(<<1>>, FALSE, Zero32),
                  CompressedBlock(Corrupted.Data, 0, 4, TRUE, <<32771, 4>>)>>,
     scanErr |-> "nil"]
\* A stream that ends with a split block, and a second stream after it.
InputSplitThenStream ==
    [blocks |-> <<SplitHead, SplitTail(TRUE, <<32784, 3>>),
                  Aligned(<<3>>, TRUE, <<32771, 1>>)>>,
     scanErr |-> "nil"]
InputTruncated ==
    [blocks |-> <<Aligned(<<1>>, FALSE, Zero32), Aligned(<<2>>, FALSE, Zero32)>>,
     scanErr |-> "failed to find trailer"]
InputNoHeader ==
    [blocks |-> <<>>, scanErr |-> "failed to read stream header"]

\* binary.BigEndian.Uint32 of 4 bytes, as a 32-bit word.
Uint32(b) == <<b[1] * 256 + b[2], b[3] * 256 + b[4]>>

\* The tokens of a block the scanner emitted: its bits from its bit offset
\* on, the 32 bits of the CRC as two tokens and a token for each byte after.
BlockTokens(b) ==
    LET bits == ToBits(b.Data)
        bytes == FromBits(SubSeq(bits, b.BitOffset + 1, Len(bits)))
    IN  IF Len(bytes) < 4 THEN bytes
        ELSE Uint32(SubSeq(bytes, 1, 4)) \o SubSeq(bytes, 5, Len(bytes))

\* sc.Block(): the CompressedBlock of the block the scanner emitted.
ScannedBlock(b) ==
    [Data |-> BlockTokens(b), BitOffset |-> 0, SizeInBits |-> Len(BlockTokens(b)),
     CRC |-> Uint32(b.CRC), EOS |-> b.EOS, StreamCRC |-> Uint32(b.StreamCRC)]

RECURSIVE ScanLoop(_, _, _)
\* The body of the loop of scan, next being the scanner after sc.Scan(ctx):
\* dc.Append(sc.Block()) when Scan returned true, sc.Err() when it did not.
ScanNextBlock(next, blocks, fuel) ==
    IF next.ret = "true" /\ fuel > 0
    THEN ScanLoop(next, Append(blocks, ScannedBlock(ScannerBlock(next))), fuel - 1)
    ELSE [blocks |-> blocks, scanErr |-> next.err]

\* The loop of scan: for sc.Scan(ctx) { dc.Append(sc.Block()) }, then sc.Err().
ScanLoop(sc, blocks, fuel) == ScanNextBlock(ScannerScan(sc, FALSE), blocks, fuel)

\* What the scanner makes of an input without cancellation: the blocks it
\* emits and the error of its last Scan.
ScanAll(input) == ScanLoop(NewScanner(input), <<>>, Len(input))

\* The scanner's results on a stream without blocks, on a one-block stream,
\* and on that stream with the empty one before and after it.
ScannedInputs ==
    [sts \in {<<EmptyStream>>, <<StreamA>>, <<EmptyStream, StreamA>>,
              <<StreamA, EmptyStream>>} |-> ScanAll(StreamsBytes(sts))]
InputEmptyStream == ScannedInputs[<<EmptyStream>>]
InputScannedStream == ScannedInputs[<<StreamA>>]
InputEmptyThenStream == ScannedInputs[<<EmptyStream, StreamA>>]
InputStreamThenEmpty == ScannedInputs[<<StreamA, EmptyStream>>]

Inputs ==
    {InputOneStream, InputTwoStreams, InputBadStreamCRC, InputSplit,
     InputSplitAtEnd, InputCorrupted, InputTruncated, InputNoHeader,
     InputBadFirstStreamCRC, InputSplitCorrupted, InputCorruptedLast,
     InputSplitThenStream}
    \cup {ScannedInputs[sts] : sts \in DOMAIN ScannedInputs}

\* ------------------------------------------------------------------ state

VARIABLES
    opts,        \* the run: input, concurrency, pool and progress options
    ctxDone,     \* the context is cancelled
    pc,          \* the decompress goroutine of NewReader
    scanned,     \* Scanner: blocks emitted so far
    scErr,       \* Scanner.err
    order,       \* Decompressor.order
    retErr,      \* decompress: the error of scan, then the error returned
    finishErr,   \* Finish: its err
    errCh,       \* reader.errCh (capacity 1): its content and whether closed
    workCh,      \* Decompressor.workCh: content and whether closed
    doneCh,      \* Decompressor.doneCh: content and whether closed
    pool,        \* tokens in the concurrency pool
    wpc,         \* worker: position
    wblock,      \* worker: its block
    apc,         \* assemble: position
    expected,    \* assemble: next ordinal to write
    heap,        \* Decompressor.heap, as the set of its blocks
    min,         \* assemble: the block taken from the heap
    gotNil,      \* assemble: the last receive returned nil
    streamCRC,   \* Decompressor.streamCRC
    wbuf,        \* pipe: the bytes of the Write in progress not yet read
    pipe,        \* io.Pipe: done (closed) and the write error stored
    progressCh,  \* the progress channel: the Block ordinals queued
    progressLog, \* every Block ordinal sent on the progress channel
    rpc,         \* the caller of Read: position
    rerr,        \* reader.Read: err of dc.Read
    output,      \* the plaintext Read has returned
    result,      \* the terminal error of Read ("none" before)
    goroutines,  \* numDecompressionGoRoutines
    cancelledEarly, \* history: the context was cancelled with the pipe open
    readLate,    \* history: the last Read was called after such a cancel
    scanner,     \* a Scanner driven by its caller, one Scan at a time
    scInput,     \* the input given to NewScanner for sc
    emitted,     \* the blocks of the calls of sc.Scan that returned true
    calls,       \* the number of calls of sc.Scan
    blockReader, \* a BlockReader read by its caller, one Read at a time
    magicScan,   \* a buffer and what bitstream.Scan returned for it
    trailerScan, \* a buffer and what FindTrailingMagicAndCRC returned for it
    bitWriter    \* a BitWriter, the bits given to it and the number of Appends

pipelineVars ==
    <<opts, ctxDone, pc, scanned, scErr, order, retErr, finishErr, errCh, workCh, doneCh,
      pool, wpc, wblock, apc, expected, heap, min, gotNil, streamCRC, wbuf,
      pipe, progressCh, progressLog, rpc, rerr, output, result, goroutines,
      cancelledEarly, readLate>>

scVars == <<scanner, scInput, emitted, calls>>

unitVars == <<blockReader, magicScan, trailerScan, bitWriter>>

handVars == <<scVars, unitVars>>

vars == <<pipelineVars, handVars>>

scannerVars == <<scanned, scErr>>
producerVars == <<pc, scanned, scErr, order, retErr, finishErr, errCh>>
workerVars == <<wpc, wblock>>
asmVars == <<apc, expected, heap, min, gotNil, streamCRC, wbuf>>
progressVars == <<progressCh, progressLog>>
readerVars == <<rpc, rerr, output, result, readLate>>

Workers == 1 .. opts.concurrency
NoBlock == [order |-> 0]
ErrClosedPipe == "io: read/write on closed pipe"

\* The runs explored: every input with every concurrency, and the pool and
\* progress options on the inputs that exercise them.
Options ==
    {[input |-> i, concurrency |-> c, usePool |-> FALSE, useProgress |-> FALSE] :
        i \in Inputs, c \in 1 .. MaxConcurrency}
    \cup
    {[input |-> i, concurrency |-> MaxConcurrency, usePool |-> TRUE,
      useProgress |-> TRUE] : i \in {InputOneStream, InputSplit, InputBadStreamCRC}}

\* NewReader: NewScanner, NewDecompressor, the decompress goroutine.
PipelineStart ==
    /\ ctxDone = FALSE
    /\ pc = "scan"
    /\ scanned = 0
    /\ scErr = "nil"
    /\ order = 0
    /\ retErr = "nil"
    /\ finishErr = "nil"
    /\ errCh = [buf |-> <<>>, closed |-> FALSE]
    /\ workCh = [buf |-> <<>>, closed |-> FALSE]
    /\ doneCh = [buf |-> <<>>, closed |-> FALSE]
    /\ pool = PoolSize
    /\ wpc = [w \in 1 .. MaxConcurrency |-> "start"]
    /\ wblock = [w \in 1 .. MaxConcurrency |-> NoBlock]
    /\ apc = "start"
    /\ expected = 1
    /\ heap = {}
    /\ min = NoBlock
    /\ gotNil = FALSE
    /\ streamCRC = Zero32
    /\ wbuf = <<>>
    /\ pipe = [done |-> FALSE, werr |-> "nil"]
    /\ progressCh = <<>>
    /\ progressLog = <<>>
    /\ rpc = "idle"
    /\ rerr = "nil"
    /\ output = <<>>
    /\ result = "none"
    /\ goroutines = 0
    /\ cancelledEarly = FALSE
    /\ readLate = FALSE

PipelineInit == opts \in Options /\ PipelineStart

\* No input for a scanner driven by hand.
NoScanInput == [kind |-> "none", streams |-> <<>>, cut |-> 0, bytes |-> <<>>]

\* No scanner is driven by hand.
NoScanCalls ==
    /\ scanner = NewScanner(<<>>)
    /\ scInput = NoScanInput
    /\ emitted = <<>>
    /\ calls = 0

\* Nothing of the bitstream package is called by hand.
NoCall == [input |-> <<>>, ret |-> <<>>]
NoBitWriter ==
    bitWriter = [bw |-> [buf |-> <<>>, lenInBits |-> 0], want |-> <<>>, appends |-> 0,
                 slices |-> <<>>]
NoBitstreamCalls ==
    /\ magicScan = NoCall
    /\ trailerScan = NoCall
    /\ NoBitWriter

\* No block reader is read by hand.
NoUnits ==
    /\ blockReader = NewBlockReader(<<>>, 0)
    /\ NoBitstreamCalls

\* The runs of the pipeline: its scanner is run by decompress.
Init == PipelineInit /\ NoScanCalls /\ NoUnits

\* io.PipeWriter.CloseWithError: the first error stored stays (nil is EOF).
CloseWithError(p, err) ==
    [done |-> TRUE,
     werr |-> IF p.werr # "nil" THEN p.werr
              ELSE IF err = "nil" THEN "EOF" ELSE err]

\* context.WithCancel's cancel(), called by the owner of the context.
CancelContext ==
    /\ ~ctxDone
    /\ ctxDone' = TRUE
    /\ cancelledEarly' = ~pipe.done
    /\ UNCHANGED <<handVars, opts, producerVars, workCh, doneCh, pool, workerVars, asmVars,
                   pipe, progressVars, readerVars, goroutines>>

\* ------------------------------------------- the decompress goroutine

Blocks == opts.input.blocks

\* Scanner.done: set when the last block of the input was emitted.
ScannerDone ==
    scanned > 0 /\ scanned = Len(Blocks) /\ opts.input.scanErr = "nil"

\* scan: one sc.Scan(ctx) of the loop.  A scanner that is done returns false
\* before it looks at the context; false ends the loop and scan returns
\* sc.Err(), on which decompress calls Cancel before Finish.
Scan ==
    /\ pc = "scan"
    /\ IF ScannerDone
       THEN /\ pc' = "Finish"
            /\ UNCHANGED <<scanned, scErr, retErr>>
       ELSE IF ctxDone
       THEN /\ scErr' = Canceled
            /\ retErr' = Canceled
            /\ pc' = "Cancel"
            /\ UNCHANGED scanned
       ELSE IF scanned < Len(Blocks)
       THEN /\ scanned' = scanned + 1
            /\ pc' = "Append"
            /\ UNCHANGED <<scErr, retErr>>
       ELSE /\ scErr' = opts.input.scanErr
            /\ retErr' = opts.input.scanErr
            /\ pc' = IF opts.input.scanErr = "nil" THEN "Finish" ELSE "Cancel"
            /\ UNCHANGED scanned
    /\ UNCHANGED <<handVars, opts, ctxDone, order, finishErr, errCh, workCh, doneCh, pool,
                   workerVars, asmVars, pipe, progressVars, readerVars, goroutines, cancelledEarly>>

\* A blockDesc numbered before dc.order++: ordinals from 0.
NewBlockDescFromZero(cb, n) ==
    [Data |-> cb.Data, BitOffset |-> cb.BitOffset, SizeInBits |-> cb.SizeInBits,
     CRC |-> cb.CRC, EOS |-> cb.EOS, StreamCRC |-> cb.StreamCRC,
     order |-> n - 1, err |-> "nil", uncompressed |-> <<>>]

\* The blockDesc Append builds for the block just scanned.
NewBlockDesc(cb, n) ==
    [Data |-> cb.Data, BitOffset |-> cb.BitOffset, SizeInBits |-> cb.SizeInBits,
     CRC |-> cb.CRC, EOS |-> cb.EOS, StreamCRC |-> cb.StreamCRC,
     order |-> n, err |-> "nil", uncompressed |-> <<>>]

\* A mutant of AppendSelect: the send does not wait for room in workCh.
AppendSelectNoCapacity ==
    \/ /\ workCh' = [workCh EXCEPT
              !.buf = Append(@, NewBlockDesc(Blocks[scanned], order + 1))]
       /\ pc' = "scan"
       /\ UNCHANGED retErr
    \/ /\ ctxDone
       /\ pc' = "Cancel"
       /\ retErr' = Canceled
       /\ UNCHANGED workCh

\* Append's select: the send on workCh and ctx.Done(), whichever is ready.
AppendSelect ==
    \/ /\ Len(workCh.buf) < opts.concurrency
       /\ workCh' = [workCh EXCEPT
              !.buf = Append(@, NewBlockDesc(Blocks[scanned], order + 1))]
       /\ pc' = "scan"
       /\ UNCHANGED retErr
    \/ /\ ctxDone
       /\ pc' = "Cancel"
       /\ retErr' = Canceled
       /\ UNCHANGED workCh

\* Decompressor.Append, and scan's return of its error.
AppendBlock ==
    /\ pc = "Append"
    /\ order' = order + 1
    /\ AppendSelect
    /\ UNCHANGED <<handVars, opts, ctxDone, scannerVars, finishErr, errCh, doneCh, pool,
                   workerVars, asmVars, pipe, progressVars, readerVars, goroutines, cancelledEarly>>

\* decompress: dc.Cancel(err) with the error of scan.
Cancel ==
    /\ pc = "Cancel"
    /\ pipe' = CloseWithError(pipe, retErr)
    /\ pc' = "Finish"
    /\ UNCHANGED <<handVars, opts, ctxDone, scannerVars, order, retErr, finishErr, errCh,
                   workCh, doneCh, pool, workerVars, asmVars, progressVars,
                   readerVars, goroutines, cancelledEarly>>

\* Finish: err is the context's error if it is done now.
FinishErr == IF ctxDone THEN Canceled ELSE "nil"

\* Finish: the look at the context and close(dc.workCh).
Finish ==
    /\ pc = "Finish"
    /\ finishErr' = FinishErr
    /\ workCh' = [workCh EXCEPT !.closed = TRUE]
    /\ pc' = "workWg.Wait"
    /\ UNCHANGED <<handVars, opts, ctxDone, scannerVars, order, retErr, errCh, doneCh, pool,
                   workerVars, asmVars, pipe, progressVars, readerVars, goroutines, cancelledEarly>>

\* A mutant of DoneWgWait: Finish does not wait for assemble.
DoneWgNoWait == TRUE

\* dc.workWg.Wait() and dc.doneWg.Wait() return.
WorkWgWait == \A w \in Workers : wpc[w] = "exit"
DoneWgWait == apc = "exit"

\* Finish: dc.workWg.Wait() and close(dc.doneCh).
FinishCloseDone ==
    /\ pc = "workWg.Wait"
    /\ WorkWgWait
    /\ doneCh' = [doneCh EXCEPT !.closed = TRUE]
    /\ pc' = "doneWg.Wait"
    /\ UNCHANGED <<handVars, opts, ctxDone, scannerVars, order, retErr, finishErr, errCh,
                   workCh, pool, workerVars, asmVars, pipe, progressVars,
                   readerVars, goroutines, cancelledEarly>>

\* Finish: dc.doneWg.Wait() and return err; decompress returns the error of
\* scan or else that of Finish; errCh <- it, close(errCh), wg.Done().
FinishReturn ==
    /\ pc = "doneWg.Wait"
    /\ DoneWgWait
    /\ retErr' = IF retErr # "nil" THEN retErr ELSE finishErr
    /\ errCh' = [buf |-> <<retErr'>>, closed |-> TRUE]
    /\ pc' = "exit"
    /\ UNCHANGED <<handVars, opts, ctxDone, scannerVars, order, finishErr, workCh, doneCh,
                   pool, workerVars, asmVars, pipe, progressVars, readerVars,
                   goroutines, cancelledEarly>>

\* ---------------------------------------------------------------- workers

\* The goroutines of NewDecompressor add 1 to numDecompressionGoRoutines when
\* they start, before dc.worker or dc.assemble: Started(p) is what a goroutine
\* at p has added so far, so a first step from "start" counts it.
Started(p) == IF p = "start" THEN 0 ELSE 1

\* worker returns: the counter is decremented and workWg.Done() called.
WorkerReturn(w) ==
    /\ wpc' = [wpc EXCEPT ![w] = "exit"]
    /\ wblock' = [wblock EXCEPT ![w] = NoBlock]
    /\ goroutines' = goroutines + (1 - Started(wpc[w])) - 1

\* A receive that leaves the block in the channel.
ReceivedKept(ch) == ch

\* block := <-in: the channel after the receive of its first block.
Received(ch) == [ch EXCEPT !.buf = Tail(@)]

\* worker: the outer select, a block from in (nil when closed) or ctx.Done().
WorkerSelect(w) ==
    /\ wpc[w] \in {"start", "select"}
    /\ \/ /\ workCh.buf # <<>>
          /\ workCh' = Received(workCh)
          /\ wblock' = [wblock EXCEPT ![w] = Head(workCh.buf)]
          /\ wpc' = [wpc EXCEPT ![w] = IF opts.usePool THEN "pool" ELSE "decompress"]
          /\ goroutines' = goroutines + (1 - Started(wpc[w]))
       \/ /\ workCh.buf = <<>>
          /\ workCh.closed
          /\ WorkerReturn(w)
          /\ UNCHANGED workCh
       \/ /\ ctxDone
          /\ WorkerReturn(w)
          /\ UNCHANGED workCh
    /\ UNCHANGED <<handVars, opts, ctxDone, producerVars, doneCh, pool, asmVars, pipe,
                   progressVars, readerVars, cancelledEarly>>

\* worker: wait for a token from the pool, or return on ctx.Done().
WorkerPool(w) ==
    /\ wpc[w] = "pool"
    /\ \/ /\ pool > 0
          /\ pool' = pool - 1
          /\ wpc' = [wpc EXCEPT ![w] = "decompress"]
          /\ UNCHANGED <<wblock, goroutines>>
       \/ /\ ctxDone
          /\ WorkerReturn(w)
          /\ UNCHANGED pool
    /\ UNCHANGED <<handVars, opts, ctxDone, producerVars, workCh, doneCh, asmVars, pipe,
                   progressVars, readerVars, cancelledEarly>>

\* worker: block.decompress(), then the token goes back to the pool.
WorkerDecompress(w) ==
    /\ wpc[w] = "decompress"
    /\ wblock' = [wblock EXCEPT ![w] = decompress(@)]
    /\ pool' = IF opts.usePool THEN pool + 1 ELSE pool
    /\ wpc' = [wpc EXCEPT ![w] = "send"]
    /\ UNCHANGED <<handVars, opts, ctxDone, producerVars, workCh, doneCh, asmVars, pipe,
                   progressVars, readerVars, goroutines, cancelledEarly>>

\* worker: the block goes to out, or is dropped on ctx.Done().
WorkerSend(w) ==
    /\ wpc[w] = "send"
    /\ \/ /\ Len(doneCh.buf) < opts.concurrency
          /\ doneCh' = [doneCh EXCEPT !.buf = Append(@, wblock[w])]
       \/ /\ ctxDone
          /\ UNCHANGED doneCh
    /\ wblock' = [wblock EXCEPT ![w] = NoBlock]
    /\ wpc' = [wpc EXCEPT ![w] = "select"]
    /\ UNCHANGED <<handVars, opts, ctxDone, producerVars, workCh, pool, asmVars, pipe,
                   progressVars, readerVars, goroutines, cancelledEarly>>

\* -------------------------------------------------------------- assemble

\* (*dc.heap)[0]: the block of the heap with the least order.
HeapTop == CHOOSE b \in heap : \A c \in heap : b.order <= c.order

\* assemble: the select, a block from ch (nil once ch is closed and empty),
\* pushed on the heap, or ctx.Done(), on which assemble closes the pipe with
\* the context's error and returns.
AssembleSelect ==
    /\ apc \in {"start", "select"}
    /\ \/ /\ doneCh.buf # <<>>
          /\ doneCh' = [doneCh EXCEPT !.buf = Tail(@)]
          /\ heap' = heap \cup {Head(doneCh.buf)}
          /\ gotNil' = FALSE
          /\ apc' = "loop"
          /\ goroutines' = goroutines + (1 - Started(apc))
          /\ UNCHANGED pipe
       \/ /\ doneCh.buf = <<>>
          /\ doneCh.closed
          /\ gotNil' = TRUE
          /\ apc' = "loop"
          /\ goroutines' = goroutines + (1 - Started(apc))
          /\ UNCHANGED <<doneCh, heap, pipe>>
       \/ /\ ctxDone
          /\ pipe' = CloseWithError(pipe, Canceled)
          /\ apc' = "exit"
          /\ goroutines' = goroutines + (1 - Started(apc)) - 1
          /\ UNCHANGED <<doneCh, heap, gotNil>>
    /\ UNCHANGED <<handVars, opts, ctxDone, producerVars, workCh, pool, workerVars,
                   expected, min, streamCRC, wbuf, progressVars, readerVars, cancelledEarly>>

\* A mutant of InOrder: the block on top of the heap is written whatever
\* its order.
InOrderAny(b, n) == TRUE

\* assemble: min.order != expected ends the loop.
InOrder(b, n) == b.order = n

\* assemble: one turn of "for len(*dc.heap) > 0": the expected block is taken
\* from the heap, to be merged if it failed to decode and written otherwise;
\* after the loop the pipe is closed if ch was closed and the heap is empty.
AssembleLoop ==
    /\ apc = "loop"
    /\ IF heap # {} /\ InOrder(HeapTop, expected)
       THEN /\ heap' = heap \ {HeapTop}
            /\ expected' = expected + 1
            /\ min' = HeapTop
            /\ apc' = IF HeapTop.err # "nil" THEN "tryMergeBlocks" ELSE "Write"
            /\ wbuf' = IF HeapTop.err # "nil" THEN <<>> ELSE HeapTop.uncompressed
            /\ UNCHANGED pipe
       ELSE /\ IF gotNil /\ heap = {}
               THEN /\ pipe' = CloseWithError(pipe, "nil")
                    /\ apc' = "waitForChannelToClose"
               ELSE /\ apc' = "select"
                    /\ UNCHANGED pipe
            /\ UNCHANGED <<heap, expected, min, wbuf>>
    /\ UNCHANGED <<handVars, opts, ctxDone, producerVars, workCh, doneCh, pool, workerVars,
                   gotNil, streamCRC, progressVars, readerVars, goroutines, cancelledEarly>>

\* tryMergeBlocks: min with bits(min) ++ block magic ++ bits(next) as its data.
MergedBlock(m, next) ==
    LET bwr0 == BitWriterInit(m.Data, m.SizeInBits + m.BitOffset)
        bwr1 == BitWriterAppend(bwr0, blockMagic, 0, Len(blockMagic))
        bwr2 == BitWriterAppend(bwr1, next.Data, next.BitOffset, next.SizeInBits)
    IN  [m EXCEPT !.Data = bwr2.buf, !.SizeInBits = bwr2.lenInBits]

\* assemble, with the error of the merge attempt in place of the one saved
\* before it.
errOfMerge(m, merged) == merged.err

\* assemble: err := min.err, taken before tryMergeBlocks runs, is the error
\* the pipe is closed with.
errBeforeMerge(m, merged) == m.err

\* tryMergeBlocks, and what assemble does with its result.  With an empty heap
\* it waits for a block, for ch to be closed or for ctx.Done(); with order+1
\* on top of the heap it merges and decompresses; with another block on top
\* its loop neither receives nor ends.  On false assemble closes the pipe
\* with the error min had before the merge and drains ch.
AssembleTryMergeBlocks ==
    /\ apc = "tryMergeBlocks"
    /\ IF heap = {}
       THEN \/ /\ doneCh.buf # <<>>
               /\ doneCh' = [doneCh EXCEPT !.buf = Tail(@)]
               /\ heap' = {Head(doneCh.buf)}
               /\ UNCHANGED <<apc, pipe, min, expected, wbuf>>
            \/ /\ doneCh.buf = <<>>
               /\ doneCh.closed
               /\ pipe' = CloseWithError(pipe, min.err)
               /\ apc' = "waitForChannelToClose"
               /\ UNCHANGED <<doneCh, heap, min, expected, wbuf>>
            \/ /\ ctxDone
               /\ pipe' = CloseWithError(CloseWithError(pipe, Canceled), min.err)
               /\ apc' = "waitForChannelToClose"
               /\ UNCHANGED <<doneCh, heap, min, expected, wbuf>>
       ELSE IF HeapTop.order = min.order + 1
       THEN LET merged == decompress(MergedBlock(min, HeapTop))
            IN  /\ min' = merged
                /\ IF merged.err # "nil"
                   THEN /\ pipe' = CloseWithError(pipe, errBeforeMerge(min, merged))
                        /\ apc' = "waitForChannelToClose"
                        /\ UNCHANGED <<heap, expected, wbuf>>
                   ELSE /\ heap' = heap \ {HeapTop}
                        /\ expected' = expected + 1
                        /\ apc' = "Write"
                        /\ wbuf' = merged.uncompressed
                        /\ UNCHANGED pipe
                /\ UNCHANGED doneCh
       ELSE /\ apc' = "tryMergeBlocks: spin"
            /\ UNCHANGED <<doneCh, heap, pipe, min, expected, wbuf>>
    /\ UNCHANGED <<handVars, opts, ctxDone, producerVars, workCh, pool, workerVars, gotNil,
                   streamCRC, progressVars, readerVars, goroutines, cancelledEarly>>

\* assemble: dc.pwr.Write fails because the pipe is closed.
AssembleWriteFails ==
    /\ apc = "Write"
    /\ pipe.done
    /\ pipe' = CloseWithError(pipe, ErrClosedPipe)
    /\ wbuf' = <<>>
    /\ apc' = "waitForChannelToClose"
    /\ UNCHANGED <<handVars, opts, ctxDone, producerVars, workCh, doneCh, pool, workerVars,
                   expected, heap, min, gotNil, streamCRC, progressVars,
                   readerVars, goroutines, cancelledEarly>>

\* handlePossibleEOS: got != want
StreamCRCMatches(got, want) == got = want

\* assemble: handlePossibleEOS, then the look at progressCh and ctx.Err().
AssembleHandlePossibleEOS ==
    /\ apc = "handlePossibleEOS"
    /\ LET crc == updateStreamCRC(streamCRC, min.CRC)
       IN  IF min.EOS /\ ~StreamCRCMatches(crc, min.StreamCRC)
           THEN /\ streamCRC' = crc
                /\ pipe' = CloseWithError(pipe, "mismatched stream CRCs")
                /\ apc' = "waitForChannelToClose"
           ELSE /\ streamCRC' = IF min.EOS THEN Zero32 ELSE crc
                /\ apc' = IF opts.useProgress /\ ~ctxDone
                          THEN "progressCh <-" ELSE "loop"
                /\ UNCHANGED pipe
    /\ UNCHANGED <<handVars, opts, ctxDone, producerVars, workCh, doneCh, pool, workerVars,
                   expected, heap, min, gotNil, wbuf, progressVars, readerVars,
                   goroutines, cancelledEarly>>

\* A mutant of ProgressBlock: the record carries the ordinal expected next.
ProgressBlockNext(b) == b.order + 1

\* Progress{Block: min.order, ...}: the Block ordinal of the record.
ProgressBlock(b) == b.order

\* assemble: dc.progressCh <- Progress{Block: min.order, ...}
AssembleSendProgress ==
    /\ apc = "progressCh <-"
    /\ Len(progressCh) < ProgCap
    /\ progressCh' = Append(progressCh, ProgressBlock(min))
    /\ progressLog' = Append(progressLog, ProgressBlock(min))
    /\ apc' = "loop"
    /\ UNCHANGED <<handVars, opts, ctxDone, producerVars, workCh, doneCh, pool, workerVars,
                   expected, heap, min, gotNil, streamCRC, wbuf, pipe, readerVars,
                   goroutines, cancelledEarly>>

\* waitForChannelToClose without its receive: it waits, but takes nothing.
AssembleWaitWithoutReceive ==
    /\ apc = "waitForChannelToClose"
    /\ \/ ctxDone
       \/ doneCh.buf = <<>> /\ doneCh.closed
    /\ apc' = "exit"
    /\ goroutines' = goroutines - 1
    /\ UNCHANGED <<handVars, opts, ctxDone, producerVars, workCh, doneCh, pool,
                   workerVars, expected, heap, min, gotNil, streamCRC, wbuf, pipe,
                   progressVars, readerVars, cancelledEarly>>

\* waitForChannelToClose; assemble returns after it.
AssembleWaitForChannelToClose ==
    /\ apc = "waitForChannelToClose"
    /\ \/ /\ ctxDone
          /\ apc' = "exit"
          /\ goroutines' = goroutines - 1
          /\ UNCHANGED doneCh
       \/ /\ doneCh.buf # <<>>
          /\ doneCh' = [doneCh EXCEPT !.buf = Tail(@)]
          /\ UNCHANGED <<apc, goroutines>>
       \/ /\ doneCh.buf = <<>>
          /\ doneCh.closed
          /\ apc' = "exit"
          /\ goroutines' = goroutines - 1
          /\ UNCHANGED doneCh
    /\ UNCHANGED <<handVars, opts, ctxDone, producerVars, workCh, pool, workerVars,
                   expected, heap, min, gotNil, streamCRC, wbuf, pipe,
                   progressVars, readerVars, cancelledEarly>>

\* The receiver of the progress channel takes a record.
ProgressReceive ==
    /\ progressCh # <<>>
    /\ progressCh' = Tail(progressCh)
    /\ UNCHANGED <<handVars, opts, ctxDone, producerVars, workCh, doneCh, pool, workerVars,
                   asmVars, pipe, progressLog, readerVars, goroutines, cancelledEarly>>

\* ------------------------------------------------------- the caller of Read

Min2(a, b) == IF a < b THEN a ELSE b

\* reader.Read: handleErrorOrCancel, a select of errCh (a closed errCh gives
\* nil) and ctx.Done() with a default; on an error dc.Cancel(err).
ReadCall ==
    /\ rpc = "idle"
    /\ \E err \in {"nil", Canceled, opts.input.scanErr} :
          /\ \/ /\ errCh.buf # <<>>
                /\ err = Head(errCh.buf)
                /\ errCh' = [errCh EXCEPT !.buf = <<>>]
             \/ /\ errCh.buf = <<>>
                /\ errCh.closed
                /\ err = "nil"
                /\ UNCHANGED errCh
             \/ /\ ctxDone
                /\ err = Canceled
                /\ UNCHANGED errCh
             \/ /\ errCh.buf = <<>>
                /\ ~errCh.closed
                /\ ~ctxDone
                /\ err = "nil"
                /\ UNCHANGED errCh
          /\ rerr' = err
          /\ readLate' = cancelledEarly
          /\ IF err # "nil"
             THEN /\ pipe' = CloseWithError(pipe, err)
                  /\ rpc' = "Cancel: wg.Wait"
             ELSE /\ rpc' = "dc.Read"
                  /\ UNCHANGED pipe
    /\ UNCHANGED <<handVars, opts, ctxDone, pc, scannerVars, order, retErr, finishErr,
                   workCh, doneCh, pool, workerVars, asmVars, progressVars,
                   output, result, goroutines, cancelledEarly>>

\* reader.Read: after Cancel, rd.wg.Wait() and return 0, err.
ReadReturnCancelled ==
    /\ rpc = "Cancel: wg.Wait"
    /\ pc = "exit"
    /\ result' = rerr
    /\ rpc' = "returned"
    /\ UNCHANGED <<handVars, opts, ctxDone, producerVars, workCh, doneCh, pool, workerVars,
                   asmVars, pipe, progressVars, rerr, output, goroutines, cancelledEarly, readLate>>

\* A mutant of WriteReturns: Write returns after the first Read.
WriteReturnsShort(n, b) == TRUE

\* pipe.write: the loop ends when no bytes are left (len(b) > 0).
WriteReturns(n, b) == n = Len(b)

\* io.Pipe: a Read meets the Write in progress and takes what fits in its
\* buffer; Read returns (n, nil); Write returns once all its bytes are taken.
PipeTransfer ==
    /\ rpc = "dc.Read"
    /\ apc = "Write"
    /\ ~pipe.done
    /\ LET n == Min2(ReadBufLen, Len(wbuf))
       IN  /\ output' = output \o SubSeq(wbuf, 1, n)
           /\ wbuf' = SubSeq(wbuf, n + 1, Len(wbuf))
           /\ apc' = IF WriteReturns(n, wbuf) THEN "handlePossibleEOS" ELSE "Write"
    /\ rpc' = "idle"
    /\ UNCHANGED <<handVars, opts, ctxDone, producerVars, workCh, doneCh, pool, workerVars,
                   expected, heap, min, gotNil, streamCRC, pipe, progressVars,
                   rerr, result, goroutines, cancelledEarly, readLate>>

\* io.Pipe: Read on a closed pipe returns the error it was closed with.
PipeReadClosed ==
    /\ rpc = "dc.Read"
    /\ pipe.done
    /\ rerr' = pipe.werr
    /\ rpc' = "wg.Wait"
    /\ UNCHANGED <<handVars, opts, ctxDone, producerVars, workCh, doneCh, pool, workerVars,
                   asmVars, pipe, progressVars, output, result, goroutines, cancelledEarly, readLate>>

\* reader.Read: the error returned after dc.Read failed with err and cerr
\* was received from errCh.
ReadResult(err, cerr) ==
    IF err # "EOF" THEN err
    ELSE IF cerr # "nil" THEN cerr
    ELSE err

\* reader.Read: rd.wg.Wait(), then the select of errCh and the return.
ReadReturn ==
    /\ rpc = "wg.Wait"
    /\ pc = "exit"
    /\ LET cerr == IF errCh.buf # <<>> THEN Head(errCh.buf) ELSE "nil"
       IN  result' = ReadResult(rerr, cerr)
    /\ errCh' = [errCh EXCEPT !.buf = <<>>]
    /\ rpc' = "returned"
    /\ UNCHANGED <<handVars, opts, ctxDone, pc, scannerVars, order, retErr, finishErr,
                   workCh, doneCh, pool, workerVars, asmVars, pipe, progressVars,
                   rerr, output, goroutines, cancelledEarly, readLate>>

\* ------------------------------------------------------------ specification

Next ==
    \/ CancelContext
    \/ Scan
    \/ AppendBlock
    \/ Cancel
    \/ Finish
    \/ FinishCloseDone
    \/ FinishReturn
    \/ \E w \in Workers : WorkerSelect(w)
    \/ \E w \in Workers : WorkerPool(w)
    \/ \E w \in Workers : WorkerDecompress(w)
    \/ \E w \in Workers : WorkerSend(w)
    \/ AssembleSelect
    \/ AssembleLoop
    \/ AssembleTryMergeBlocks
    \/ AssembleWriteFails
    \/ AssembleHandlePossibleEOS
    \/ AssembleSendProgress
    \/ AssembleWaitForChannelToClose
    \/ ProgressReceive
    \/ ReadCall
    \/ ReadReturnCancelled
    \/ PipeTransfer
    \/ PipeReadClosed
    \/ ReadReturn

Spec == Init /\ [][Next]_vars

\* The steps of each task.
ProducerStep ==
    Scan \/ AppendBlock \/ Cancel \/ Finish \/ FinishCloseDone \/ FinishReturn
WorkerStep(w) ==
    /\ w \in Workers
    /\ WorkerSelect(w) \/ WorkerPool(w) \/ WorkerDecompress(w) \/ WorkerSend(w)
AssembleStep ==
    \/ AssembleSelect
    \/ AssembleLoop
    \/ AssembleTryMergeBlocks
    \/ AssembleWriteFails
    \/ AssembleHandlePossibleEOS
    \/ AssembleSendProgress
    \/ AssembleWaitForChannelToClose
ReaderStep ==
    ReadCall \/ ReadReturnCancelled \/ PipeTransfer \/ PipeReadClosed \/ ReadReturn

\* The runs of the liveness checks: a split block, the largest number of
\* workers, and the pool and progress options.
LiveOptions ==
    {o \in Options :
        o.input = InputSplit /\ o.concurrency = MaxConcurrency /\ o.useProgress}

LiveInit == Init /\ opts \in LiveOptions

PipelineStep ==
    ProducerStep \/ (\E w \in 1 .. MaxConcurrency : WorkerStep(w)) \/ AssembleStep

\* assemble's select takes the case of ctx.Done().
AssembleSelectDone == AssembleSelect /\ apc' = "exit"

\* The Go scheduler runs a goroutine that can take a step: the pipeline does
\* not stop while one of its goroutines can go on.  The only runs that return
\* to a state they have left are those of assemble receiving nil again and
\* again from the closed ch with a block it does not expect on the heap, which
\* takes a cancelled context; select chooses among its ready cases at random,
\* so it takes the case of ctx.Done() at last.  Nothing is assumed of the
\* caller of Read, of the receiver of the progress channel or of the owner of
\* the context.
FairPipeline ==
    /\ LiveInit
    /\ [][Next]_vars
    /\ WF_vars(PipelineStep)
    /\ SF_vars(AssembleSelectDone)

\* The pipeline with a caller that keeps calling Read, as io.Copy does, and a
\* receiver that keeps receiving from the progress channel.
FairAll ==
    /\ FairPipeline
    /\ WF_vars(ReaderStep)
    /\ WF_vars(ProgressReceive)

\* The pipeline with a receiver that keeps receiving from the progress
\* channel, and nothing assumed of the caller of Read.
FairProgress ==
    /\ FairPipeline
    /\ WF_vars(ProgressReceive)

\* The runs in which the assembler decides to fail: a block that does not
\* decode and cannot be merged and a stream CRC that does not match before
\* further blocks, with one worker, and a stream CRC that does not match at
\* the end of the input, with the pool and progress options.
FailingOptions ==
    {o \in Options :
        \/ o.input \in {InputCorrupted, InputBadFirstStreamCRC} /\ o.concurrency = 1
        \/ o.input = InputBadStreamCRC /\ o.useProgress}

FailingInit == Init /\ opts \in FailingOptions

FairFailing ==
    /\ FailingInit
    /\ [][Next]_vars
    /\ WF_vars(PipelineStep)
    /\ SF_vars(AssembleSelectDone)

\* The runs that show how many blocks are in the pipeline at once: an input
\* of one stream of ManyBlocks blocks of one byte each, decoded by two
\* workers.
ManyBlocks == 7

RECURSIVE StreamCRCOf(_, _)
\* The stream CRC of the first n blocks of one byte n, n - 1, ..., 1.
StreamCRCOf(n, crc) ==
    IF n = 0 THEN crc ELSE StreamCRCOf(n - 1, updateStreamCRC(crc, Checksum(<<n>>)))

InputManyBlocks ==
    [blocks |-> [i \in 1 .. ManyBlocks |->
                    Aligned(<<ManyBlocks + 1 - i>>, i = ManyBlocks,
                            IF i = ManyBlocks THEN StreamCRCOf(ManyBlocks, Zero32)
                            ELSE Zero32)],
     scanErr |-> "nil"]

ManyBlocksInit ==
    /\ PipelineStart
    /\ NoScanCalls
    /\ NoUnits
    /\ opts = [input |-> InputManyBlocks, concurrency |-> 2, usePool |-> FALSE,
               useProgress |-> FALSE]

\* The steps of a run without a concurrency pool in which the context is
\* not cancelled and nothing fails.
ManyBlocksNext ==
    \/ Scan
    \/ AppendBlock
    \/ Finish
    \/ FinishCloseDone
    \/ FinishReturn
    \/ \E w \in Workers : WorkerSelect(w)
    \/ \E w \in Workers : WorkerDecompress(w)
    \/ \E w \in Workers : WorkerSend(w)
    \/ AssembleSelect
    \/ AssembleLoop
    \/ AssembleHandlePossibleEOS
    \/ AssembleWaitForChannelToClose
    \/ ReadCall
    \/ PipeTransfer
    \/ PipeReadClosed
    \/ ReadReturn

ManyBlocksSpec == ManyBlocksInit /\ [][ManyBlocksNext]_vars

\* ------------------------------------------------- the scanner by hand
\* A caller that makes a scanner over an input and calls Scan, as the loops
\* of the tests do, and may cancel the context between two calls.

\* Valid inputs: concatenations of streams, empty ones among them.
ValidScanInputs ==
    {[kind |-> "valid", streams |-> sts, cut |-> 0, bytes |-> StreamsBytes(sts)] :
        sts \in {<<StreamA>>, <<StreamB>>, <<StreamC>>, <<StreamA, StreamB>>,
                 <<StreamB, StreamA>>, <<StreamC, StreamB, StreamA>>,
                 <<EmptyStream>>, <<EmptyStream, StreamA>>, <<StreamA, EmptyStream>>,
                 <<StreamA, EmptyStream, StreamB>>, <<EmptyStream, EmptyStream>>}}

\* Valid inputs less their last 1..7 bytes.
CutScanInputs ==
    {[kind |-> "cut", streams |-> sts, cut |-> k,
      bytes |-> SubSeq(StreamsBytes(sts), 1, Len(StreamsBytes(sts)) - k)] :
        sts \in {<<StreamA>>, <<StreamC>>, <<EmptyStream>>, <<StreamB, StreamA>>},
        k \in 1 .. 7}

\* The four bytes an input may start with: the selectors around '1'..'9',
\* another version, another file magic.
HeaderStarts ==
    {<<66, 90, 104, s>> : s \in {47, 48, 49, 57, 58}}
    \cup {<<66, 90, 72, 57>>, <<66, 90, 48, 57>>, <<66, 88, 104, 57>>, <<98, 90, 104, 57>>}

\* StreamA after each of these starts, and the inputs of less than 4 bytes.
HeaderScanInputs ==
    {[kind |-> "header", streams |-> <<StreamA>>, cut |-> 0,
      bytes |-> h \o SubSeq(StreamBytes(StreamA), 5, Len(StreamBytes(StreamA)))] :
        h \in HeaderStarts}
    \cup
    {[kind |-> "header", streams |-> <<>>, cut |-> 0, bytes |-> b] :
        b \in {<<>>, <<66>>, <<66, 90>>, <<66, 90, 104>>}}

\* An input that is not a bzip2 file: after the header, the block magic and
\* 13 bits, a block magic that ends 5 bits into a byte and a third one that
\* starts with the last 3 bits of the second, 001, which are also the first 3
\* bits of the magic; then 16 bits and the trailer.
OverlapScanInput ==
    [kind |-> "overlap", streams |-> <<>>, cut |-> 0,
     bytes |-> FromBits(ToBits(<<66, 90, 104, 57>>) \o ToBits(BlockMagic)
                        \o [i \in 1 .. 13 |-> 1]
                        \o ToBits(BlockMagic) \o SubSeq(ToBits(BlockMagic), 4, 48)
                        \o [i \in 1 .. 16 |-> 1]
                        \o ToBits(EOSMagic) \o ToBits(<<1, 2, 3, 4>>))]

\* Inputs whose blocks are too short to be blocks of a bzip2 file: a stream
\* of one block of 0..5 bytes, and a stream of a block of 3..5 bytes and a
\* block of 6 bytes.
ShortScanInputs ==
    {[kind |-> "short", streams |-> <<>>, cut |-> 0,
      bytes |-> <<66, 90, 104, 57>> \o BlockMagic \o SubSeq(<<1, 2, 3, 4, 5>>, 1, k)
                    \o EOSMagic \o <<1, 2, 3, 4>>] : k \in 0 .. 5}
    \cup
    {[kind |-> "short", streams |-> <<>>, cut |-> 0,
      bytes |-> <<66, 90, 104, 57>> \o BlockMagic \o SubSeq(<<1, 2, 3, 4, 5>>, 1, k)
                    \o BlockMagic \o <<9, 8, 7, 6, 5, 4>>
                    \o EOSMagic \o <<1, 2, 3, 4>>] : k \in 3 .. 5}

ScanInputs ==
    ValidScanInputs \cup CutScanInputs \cup HeaderScanInputs \cup {OverlapScanInput}
        \cup ShortScanInputs

\* NewScanner(bytes.NewBuffer(input)); the pipeline is not started.
ScanInit ==
    /\ PipelineInit
    /\ opts = [input |-> InputOneStream, concurrency |-> 1, usePool |-> FALSE,
               useProgress |-> FALSE]
    /\ scInput \in ScanInputs
    /\ scanner = NewScanner(scInput.bytes)
    /\ emitted = <<>>
    /\ calls = 0
    /\ NoUnits

\* sc.Scan(ctx), and sc.BlockEOS() with sc.StreamCRC() and sc.BlockSize()
\* when it returned true.
ScanCall ==
    /\ calls < MaxScanCalls
    /\ ~scanner.panic
    /\ scanner' = ScannerScan(scanner, ctxDone)
    /\ calls' = calls + 1
    /\ emitted' = IF scanner'.ret = "true" THEN Append(emitted, ScannerBlock(scanner'))
                  ELSE emitted
    /\ UNCHANGED <<scInput, pipelineVars, unitVars>>

ScanNext == ScanCall \/ CancelContext

ScanSpec == ScanInit /\ [][ScanNext]_vars

\* The scanner over a valid input whose source returns at most 1, 2, 3, 4 or
\* 5 bytes for a Read, as an io.Reader may.
ReadSizes == 1 .. 5

ChunkedScanInit ==
    /\ PipelineInit
    /\ opts = [input |-> InputOneStream, concurrency |-> 1, usePool |-> FALSE,
               useProgress |-> FALSE]
    /\ scInput \in ValidScanInputs
    /\ \E size \in ReadSizes : scanner = NewScannerChunked(scInput.bytes, size)
    /\ emitted = <<>>
    /\ calls = 0
    /\ NoUnits

ChunkedScanSpec == ChunkedScanInit /\ [][ScanNext]_vars

\* ------------------------------------------------ the block reader by hand
\* A caller that makes a BlockReader over the data of a block and calls Read
\* with buffers of 0 to ReadBufLen bytes, as io.ReadAll does.

\* The pipeline is not started.
NoPipeline ==
    /\ PipelineInit
    /\ opts = [input |-> InputOneStream, concurrency |-> 1, usePool |-> FALSE,
               useProgress |-> FALSE]

\* Blocks at bit offset 0 and 1 and with bits after their end, blocks with
\* a stored CRC that is not that of their content, data that does not
\* decode, and no data.
BlockReaderInputs ==
    {[src |-> Payload(p), start |-> 0] : p \in {<<>>, <<1>>, <<1, 2>>, <<4, 7, 5>>, <<2, 2, 2, 2>>,
             <<3, 1, 4, 1, 5>>}}
    \cup {[src |-> <<Junk>> \o Payload(p), start |-> 1] : p \in {<<1>>, <<4, 7, 5>>}}
    \cup {[src |-> Payload(p) \o <<Junk>>, start |-> 0] : p \in {<<1>>, <<1, 2>>}}
    \cup {[src |-> Corrupted.Data, start |-> 0],
          [src |-> <<32769, 2, 1, EndSym>>, start |-> 0],
          [src |-> <<32768, 1, EndSym>>, start |-> 0],
          [src |-> <<Junk, 32770, 3, 2, 7, 5, EndSym>>, start |-> 1],
          [src |-> <<32769, 1, 1>>, start |-> 0],
          [src |-> <<32769>>, start |-> 0],
          [src |-> <<>>, start |-> 0]}

BlockReadInit ==
    /\ NoPipeline
    /\ NoScanCalls
    /\ \E i \in BlockReaderInputs : blockReader = NewBlockReader(i.src, i.start)
    /\ NoBitstreamCalls

\* br.Read(buf).  Nothing is read after readBlock has failed.
BlockRead ==
    /\ ~(blockReader.first /\ blockReader.ret # "none")
    /\ \E len \in 0 .. ReadBufLen : blockReader' = BlockReaderRead(blockReader, len)
    /\ UNCHANGED <<pipelineVars, scVars, magicScan, trailerScan, bitWriter>>

BlockReadNext == BlockRead

BlockReadSpec == BlockReadInit /\ [][BlockReadNext]_vars

\* --------------------------------------------- bitstream.Scan by hand
\* A caller that searches a buffer for the block magic, as the tests of the
\* bitstream package do.

\* The largest bit position the magic is put at.
MaxMagicBit == 23

Fill(n, bit) == [i \in 1 .. n |-> bit]
MagicBits == ToBits(BlockMagic)
FlipBit(bits, j) == [bits EXCEPT ![j] = 1 - @]

\* Buffers with the magic at bit p after a filler of 0 or 1 bits, ending the
\* buffer or followed by a byte; buffers where a proper prefix of the magic,
\* itself at a shift, comes before the magic; buffers without an occurrence:
\* prefixes of the magic, the magic less its last byte, the magic with one bit
\* changed, fillers.
MagicScanInputs ==
    {FromBits(Fill(p, f) \o MagicBits \o tail) :
        p \in 0 .. MaxMagicBit, f \in {0, 1}, tail \in {<<>>, Fill(8, 1)}}
    \cup {FromBits(Fill(sh, 0) \o SubSeq(MagicBits, 1, k) \o Fill(g, 1) \o MagicBits) :
            sh \in 0 .. 7, k \in {8, 16, 24, 32, 40, 47}, g \in 0 .. 1}
    \cup {FromBits(Fill(sh, 0) \o SubSeq(MagicBits, 1, k)) :
            sh \in 0 .. 7, k \in {8, 16, 24, 32, 40, 47}}
    \cup {Slice(FromBits(Fill(sh, 0) \o MagicBits), 0, 6) : sh \in 1 .. 7}
    \cup {FromBits(Fill(sh, 1) \o FlipBit(MagicBits, j)) :
            sh \in {0, 3}, j \in {1, 8, 29, 33, 45, 48}}
    \cup {FromBits(Fill(n, f)) : n \in {0, 8, 40, 48, 80}, f \in {0, 1}}

MagicScanInit ==
    /\ NoPipeline
    /\ NoScanCalls
    /\ blockReader = NewBlockReader(<<>>, 0)
    /\ trailerScan = NoCall
    /\ NoBitWriter
    /\ \E input \in MagicScanInputs : magicScan = [input |-> input, ret |-> <<>>]

\* Scan(pretest, first, second, input)
MagicScanCall ==
    /\ magicScan.ret = <<>>
    /\ magicScan' = [magicScan EXCEPT !.ret = ScanMagic(magicScan.input)]
    /\ UNCHANGED <<pipelineVars, scVars, blockReader, trailerScan, bitWriter>>

MagicScanNext == MagicScanCall

MagicScanSpec == MagicScanInit /\ [][MagicScanNext]_vars

\* ------------------------------- bitstream.FindTrailingMagicAndCRC by hand
\* A caller that looks for the EOS trailer at the end of a buffer.

EOSBits == ToBits(EOSMagic)

\* Buffers that end with the EOS magic, a CRC and k bits of padding, after
\* whole bytes of filler less k bits; buffers without such an end: the same
\* with a bit of the magic changed or a byte more at the end, buffers of less
\* than 10 bytes, fillers.
TrailerCRCs == {<<1, 2, 3, 4>>, <<0, 0, 0, 0>>, <<255, 255, 255, 255>>}
TrailerInputs ==
    {FromBits(Fill(8 * m - k, f) \o EOSBits \o ToBits(crc) \o Fill(k, g)) :
        k \in 1 .. 7, m \in 1 .. 2, f \in {0, 1}, g \in {0, 1}, crc \in TrailerCRCs}
    \cup {FromBits(Fill(8 * m, f) \o EOSBits \o ToBits(crc)) :
            m \in 0 .. 2, f \in {0, 1}, crc \in TrailerCRCs}
    \cup {FromBits(Fill(8 - k, 0) \o FlipBit(EOSBits, j) \o ToBits(<<1, 2, 3, 4>>)
                    \o Fill(k, 0)) : k \in {0, 3, 7}, j \in {1, 20, 48}}
    \cup {FromBits(EOSBits \o ToBits(<<1, 2, 3, 4>>) \o Fill(8, g)) : g \in {0, 1}}
    \cup {FromBits(Fill(n, f)) : n \in {0, 72, 80, 88, 96}, f \in {0, 1}}
    \cup {Slice(EOSMagic \o <<1, 2, 3, 4>>, 0, n) : n \in 6 .. 9}

TrailerInit ==
    /\ NoPipeline
    /\ NoScanCalls
    /\ blockReader = NewBlockReader(<<>>, 0)
    /\ magicScan = NoCall
    /\ NoBitWriter
    /\ \E input \in TrailerInputs : trailerScan = [input |-> input, ret |-> <<>>]

\* FindTrailingMagicAndCRC(buf, eosMagic)
TrailerCall ==
    /\ trailerScan.ret = <<>>
    /\ trailerScan' = [trailerScan EXCEPT
            !.ret = FindTrailingMagicAndCRC(trailerScan.input, EOSMagic)]
    /\ UNCHANGED <<pipelineVars, scVars, blockReader, magicScan, bitWriter>>

TrailerNext == TrailerCall

TrailerSpec == TrailerInit /\ [][TrailerNext]_vars

\* ------------------------------------------------- the BitWriter by hand
\* A caller that initialises a BitWriter and appends bit slices to it.

\* The largest number of Append calls.
MaxAppends == 2

\* The initial bits: 0 to 9 bits in as many bytes as hold them, the bits of
\* the last byte after them set or not.
InitialBits ==
    {[data |-> FromBits(Fill(n, 1) \o Fill((8 - (n % 8)) % 8, pad)), lenBits |-> n] :
        n \in 0 .. 9, pad \in {0, 1}}

\* The slices appended: 1, 2, 8 or 9 bits at bit offset 0..7 of as many bytes
\* as hold them, the bits around them the opposite of their first bit, and
\* the 48 bits of the block magic, which tryMergeBlocks appends first.
BitPatterns == {<<1>>, <<0, 1>>, <<1, 1>>, <<1, 0, 1, 1, 0, 1, 0, 1>>,
                <<1, 1, 1, 1, 1, 1, 1, 1>>, <<0, 1, 1, 0, 1, 0, 0, 1, 1>>}
AroundSlice(pattern, off) ==
    Fill(off, 1 - pattern[1]) \o pattern
        \o Fill((8 - ((off + Len(pattern)) % 8)) % 8, 1 - pattern[1])
BitSlices ==
    {[data |-> FromBits(AroundSlice(pattern, off)), offsetBits |-> off,
      lenBits |-> Len(pattern)] : pattern \in BitPatterns, off \in 0 .. 7}
    \cup {[data |-> BlockMagic, offsetBits |-> 0, lenBits |-> 8 * Len(BlockMagic)]}

BitWriterStart ==
    /\ NoPipeline
    /\ NoScanCalls
    /\ blockReader = NewBlockReader(<<>>, 0)
    /\ magicScan = NoCall
    /\ trailerScan = NoCall
    /\ \E i \in InitialBits :
            bitWriter = [bw |-> BitWriterInitBytes(i.data, i.lenBits),
                         want |-> BitsOf(i.data, 0, i.lenBits), appends |-> 0,
                         slices |-> <<>>]

\* bw.Append(data, offsetBits, lenBits)
BitWriterAppendCall ==
    /\ bitWriter.appends < MaxAppends
    /\ \E sl \in BitSlices :
            bitWriter' =
                [bw |-> BitWriterAppendBytes(bitWriter.bw, sl.data, sl.offsetBits,
                                             sl.lenBits),
                 want |-> bitWriter.want \o BitsOf(sl.data, sl.offsetBits, sl.lenBits),
                 appends |-> bitWriter.appends + 1,
                 slices |-> Append(bitWriter.slices,
                                   [offsetBits |-> sl.offsetBits, lenBits |-> sl.lenBits])]
    /\ UNCHANGED <<pipelineVars, scVars, blockReader, magicScan, trailerScan>>

BitWriterNext == BitWriterAppendCall

BitWriterSpec == BitWriterStart /\ [][BitWriterNext]_vars

\* ------------------------------------------------------------------ claims

IsPrefix(a, b) == Len(a) <= Len(b) /\ a = SubSeq(b, 1, Len(a))

RECURSIVE SerialFrom(_, _, _)
\* The reference: the blocks decoded one after another by a single task.
\* A block that fails is decoded again together with its successor; a stream
\* ends at the block, or merged pair, that holds its last bits.  The result
\* is the plaintext produced and the error that ended it ("nil" for none).
SerialFrom(blocks, i, crc) ==
    IF i > Len(blocks) THEN [plain |-> <<>>, err |-> "nil"]
    ELSE LET alone == DecodeData(blocks[i].Data, blocks[i].BitOffset)
             pair == IF alone.err = "nil" \/ i = Len(blocks)
                     THEN alone
                     ELSE DecodeData(
                              SubSeq(blocks[i].Data, 1,
                                     blocks[i].BitOffset + blocks[i].SizeInBits)
                              \o blockMagic
                              \o SubSeq(blocks[i + 1].Data, blocks[i + 1].BitOffset + 1,
                                        Len(blocks[i + 1].Data)),
                              blocks[i].BitOffset)
             last == IF alone.err = "nil" THEN i ELSE i + 1
             sum == Xor32(Rotl1(crc), blocks[i].CRC)
         IN  IF pair.err # "nil" THEN [plain |-> <<>>, err |-> alone.err]
             ELSE IF blocks[last].EOS /\ sum # blocks[last].StreamCRC
             THEN [plain |-> pair.plain, err |-> "mismatched stream CRCs"]
             ELSE LET rest == SerialFrom(blocks, last + 1,
                                         IF blocks[last].EOS THEN Zero32 ELSE sum)
                  IN  [plain |-> pair.plain \o rest.plain, err |-> rest.err]

Serial == SerialFrom(Blocks, 1, Zero32)

\* C1: whatever the concurrency and the order in which workers complete, the
\* bytes that went through the output sink are those the serial decode of the
\* appended blocks produces, in the same order: always a prefix of it, and all
\* of it when the sink was closed with EOF in a run without cancellation.
C1_OutputIsSerialDecode ==
    /\ IsPrefix(output, Serial.plain)
    /\ (pipe.werr = "EOF" /\ ~ctxDone) => output = Serial.plain

\* C1 witness: with two workers block 3 reached the heap before block 2, and
\* blocks 1 and 2 are out, in order.
C1_Witness ==
    /\ opts.concurrency > 1
    /\ ~ctxDone
    /\ apc = "handlePossibleEOS"
    /\ min.order = 2
    /\ \E b \in heap : b.order = 3
    /\ output = <<1, 2>>

\* C2: Read returns EOF only if every block was decoded and written in order
\* and neither the scanner, a decode, a stream CRC nor a cancellation before
\* completion failed the run.
C2_EOFOnlyWhenComplete ==
    result = "EOF" =>
        /\ opts.input.scanErr = "nil"
        /\ Serial.err = "nil"
        /\ output = Serial.plain

\* C3: a Read called after the context was cancelled while decompression was
\* in progress returns the cancellation cause.
C3_CancelledReadReturnsCause ==
    (result # "none" /\ readLate) => result = Canceled

\* C3, its clause "never EOF": a Read called after the context was cancelled
\* while decompression was in progress does not return EOF.
C3_CancelledReadNeverEOF ==
    (result # "none" /\ readLate) => result # "EOF"

\* C4: when Read has returned its terminal result every worker and assemble
\* have returned and numDecompressionGoRoutines is back to its initial 0.
C4_NoTaskLeak ==
    result # "none" =>
        /\ goroutines = 0
        /\ \A w \in Workers : wpc[w] = "exit"
        /\ apc = "exit"

\* C4 witness: Read returned the cancellation cause in a run cancelled while a
\* worker held a block, and no task is left.
C4_Witness ==
    /\ result = Canceled
    /\ order > 0
    /\ output # Serial.plain
    /\ goroutines = 0

\* A task of the pipeline is at one of its blocking operations: Append's
\* send, a worker's waits, assemble's receives, its Write and its progress
\* send.
AtBlockingOperation ==
    \/ pc = "Append"
    \/ \E w \in Workers : wpc[w] \in {"start", "select", "pool", "send"}
    \/ apc \in {"start", "select", "tryMergeBlocks", "Write", "progressCh <-",
                "waitForChannelToClose"}

\* C5: after the context is cancelled every task leaves the blocking operation
\* it is at, with nobody reading the output or the progress channel: there
\* comes a moment at which no task is at a blocking operation.
C5_CancelReleasesAll == (ctxDone /\ AtBlockingOperation) ~> ~AtBlockingOperation

\* C6: fed the two halves of a block split at a block magic in its payload,
\* and read by a caller that keeps reading, the decompressor delivers the
\* original plaintext and EOF (unless the context is cancelled).
C6_SplitBlockDecoded ==
    (opts.input = InputSplit) =>
        <>(ctxDone \/ (result = "EOF" /\ output = <<4, 7, 5, 3>>))

\* The formula of the claim on the bits of a word, bit 0 the least
\* significant: ((crc << 1) | (crc >> 31)) xor block.crc.
WordBits(x) ==
    [i \in 0 .. 31 |->
        IF i < 16 THEN (x[2] \div (2 ^ i)) % 2 ELSE (x[1] \div (2 ^ (i - 16))) % 2]
ClaimedStreamCRC(crc, blockCRC) ==
    [i \in 0 .. 31 |-> (WordBits(crc)[(i + 31) % 32] + WordBits(blockCRC)[i]) % 2]

\* C7: the running stream CRC starts at 0 and changes only when assemble has
\* written a block and handles it: to the claimed function of itself and the
\* block's CRC, or to 0 at a stream end whose stored CRC it equals; at a
\* stream end whose stored CRC differs the output is closed with
\* "mismatched stream CRCs" (unless closed before) and nothing more is written.
C7_Step ==
    IF apc = "handlePossibleEOS" /\ apc' # apc
    THEN LET sum == ClaimedStreamCRC(streamCRC, min.CRC)
         IN  /\ wbuf = <<>>
             /\ IF min.EOS /\ sum # WordBits(min.StreamCRC)
                THEN /\ pipe'.done
                     /\ pipe'.werr = IF pipe.werr = "nil"
                                     THEN "mismatched stream CRCs" ELSE pipe.werr
                     /\ apc' = "waitForChannelToClose"
                ELSE /\ WordBits(streamCRC') =
                            IF min.EOS THEN WordBits(Zero32) ELSE sum
                     /\ pipe' = pipe
    ELSE streamCRC' = streamCRC
C7_StreamCRC == streamCRC = Zero32 /\ [][C7_Step]_vars

\* C7 witness: the first stream of two passed its check and the CRC of the
\* second was started from 0 (it is the CRC of block 2 alone).
C7_Witness ==
    /\ opts.input = InputTwoStreams
    /\ min.order = 2
    /\ streamCRC = <<32770, 1>>

\* C8: when the output is closed with the stream CRC error, all the plaintext
\* up to and including the terminal block of that stream was read before.
C8_PlaintextBeforeStreamCRCError ==
    (pipe.werr = "mismatched stream CRCs" \/ result = "mismatched stream CRCs")
        => output = Serial.plain

\* C8 witness: Read returned the stream CRC error after the four bytes of the
\* two blocks of the stream.
C8_Witness ==
    /\ result = "mismatched stream CRCs"
    /\ output = <<1, 2, 2, 2>>

PipelineErrors ==
    {"bzip2 data invalid", "block checksum mismatch", "mismatched stream CRCs"}

\* C9: in a run without cancellation, when the output was closed with a decode
\* error or a stream CRC error, Finish returns that error and not success.
C9_FinishReturnsFirstError ==
    (pc = "exit" /\ ~ctxDone /\ pipe.werr \in PipelineErrors)
        => finishErr = pipe.werr

\* C10: an Append called with the context cancelled returns the cancellation
\* cause and leaves the work queue as it is.
C10_AppendFailsWhenCancelled ==
    [][(pc = "Append" /\ ctxDone /\ pc' # pc)
        => (pc' = "Cancel" /\ retErr' = Canceled /\ workCh' = workCh)]_vars

\* C10, amended: such an Append returns the cancellation cause and leaves the
\* work queue as it is, or, only when the work queue has room, enqueues the
\* block and returns nil.
C10_AppendWhenCancelled ==
    [][(pc = "Append" /\ ctxDone /\ pc' # pc)
        => \/ pc' = "Cancel" /\ retErr' = Canceled /\ workCh' = workCh
           \/ /\ Len(workCh.buf) < opts.concurrency
              /\ pc' = "scan"
              /\ retErr' = "nil"
              /\ Len(workCh'.buf) = Len(workCh.buf) + 1
              /\ workCh'.buf[Len(workCh'.buf)].order = order']_vars

\* C10 witness: Append returned the cancellation cause (the scanner has no
\* error) with the work queue full.
C10_Witness ==
    /\ pc = "Cancel"
    /\ scErr = "nil"
    /\ retErr = Canceled
    /\ Len(workCh.buf) = opts.concurrency

\* The sink was closed by Cancel(err), of decompress or of Read, while it was
\* open: it is closed and assemble, which goes to waitForChannelToClose or
\* returns when it closes the sink itself, has not closed it.
ClosedByCancel ==
    pipe.done /\ apc \notin {"waitForChannelToClose", "exit"}

\* C11, its clauses on Read and Write: Cancel(err) on an open sink closes it
\* with err, the error of a closed sink stays, a Read of the closed sink
\* returns that error and no bytes, and a Write to it fails.
C11_CancelFailsReadAndWrite ==
    [][/\ (pc = "Cancel" /\ pc' # pc /\ ~pipe.done)
            => (pipe'.done /\ pipe'.werr = retErr)
       /\ pipe.done => (pipe'.done /\ pipe'.werr = pipe.werr)
       /\ (rpc = "dc.Read" /\ rpc' # rpc /\ pipe.done)
            => (rerr' = pipe.werr /\ output' = output)
       /\ (apc = "Write" /\ apc' # apc /\ pipe.done)
            => (apc' = "waitForChannelToClose" /\ output' = output)]_vars

\* C11: after Cancel(err) on a decompressor whose sink is open, Finish
\* completes (decompress returns) with no reader consuming output.
C11_FinishCompletesAfterCancel == ClosedByCancel ~> (pc = "exit")

\* C11, what holds instead: Finish completes unless assemble is in the loop
\* of tryMergeBlocks that neither receives nor ends.
C11_FinishCompletesUnlessSpin ==
    ClosedByCancel ~> (pc = "exit" \/ apc = "tryMergeBlocks: spin")

\* The workers that hold a token of the pool: those between the receive from
\* pool and the send back to it.
TokensHeld ==
    IF opts.usePool THEN Cardinality({w \in Workers : wpc[w] = "decompress"}) ELSE 0

\* assemble is at min.decompress() of tryMergeBlocks: order+1 is on top of
\* the heap, and its next step is the decode of the merged block.
MergeDecodeInProgress ==
    apc = "tryMergeBlocks" /\ heap # {} /\ HeapTop.order = min.order + 1

\* The tasks at a block decode: the workers at block.decompress() and assemble
\* at min.decompress().
DecodesInProgress ==
    Cardinality({w \in Workers : wpc[w] = "decompress"})
        + (IF MergeDecodeInProgress THEN 1 ELSE 0)

\* C12, its clause on the tokens: the tokens in the pool and those held by
\* workers are PoolSize together, at every moment and after cancellation.
C12_TokensConserved ==
    opts.usePool => pool + TokensHeld = PoolSize

\* C12: with a pool of PoolSize tokens at most PoolSize block decodes are in
\* progress, the decode of a merged block included, and the tokens in the
\* pool and those held are PoolSize together.
C12_DecodesWithinPool ==
    opts.usePool =>
        /\ DecodesInProgress <= PoolSize
        /\ pool + TokensHeld = PoolSize

IsSuffix(a, b) ==
    Len(a) <= Len(b) /\ a = SubSeq(b, Len(b) - Len(a) + 1, Len(b))

\* No block of the input fails to decode alone: assemble merges nothing.
NoMerge ==
    \A i \in 1 .. Len(Blocks) :
        DecodeData(Blocks[i].Data, Blocks[i].BitOffset).err = "nil"

\* C13: with a progress channel, when a block's plaintext was written (Write
\* returned and assemble goes on) assemble sends the Progress record of that
\* block: one record for each block written.
C13_RecordForEveryBlockWritten ==
    [][(opts.useProgress /\ apc = "handlePossibleEOS" /\ apc' # apc)
        => apc' = "progressCh <-"]_vars

\* The Block ordinals sent so far are strictly increasing from 1, and are
\* 1, 2, 3, ... when nothing was merged.
C13_Ordinals ==
    /\ progressLog # <<>> => progressLog[1] = 1
    /\ \A i \in 1 .. Len(progressLog) - 1 : progressLog[i] < progressLog[i + 1]
    /\ NoMerge => \A i \in 1 .. Len(progressLog) : progressLog[i] = i

\* A record is sent only by assemble at its send, for the block it has just
\* written whole, and assemble leaves the send only by sending; a block
\* written gets its record unless its stream CRC check failed or the context
\* is cancelled by then.
C13_Step ==
    /\ progressLog' # progressLog =>
          /\ apc = "progressCh <-"
          /\ progressLog' = Append(progressLog, min.order)
          /\ wbuf = <<>>
          /\ IsSuffix(min.uncompressed, output)
    /\ (apc = "progressCh <-" /\ apc' # apc) =>
          progressLog' = Append(progressLog, min.order)
    /\ (opts.useProgress /\ apc = "handlePossibleEOS" /\ apc' # apc) =>
          \/ apc' = "progressCh <-"
          \/ ctxDone /\ apc' = "loop"
          \/ /\ min.EOS
             /\ updateStreamCRC(streamCRC, min.CRC) # min.StreamCRC
             /\ apc' = "waitForChannelToClose"
    /\ ~opts.useProgress => progressLog' = <<>>

\* C13, amended: at most one record per block written, sent after the block
\* was written and passed its stream CRC check, and sent for every such block
\* unless the context is cancelled by then; ordinals in sequence.
C13_RecordPerBlockUnlessFailedOrCancelled ==
    []C13_Ordinals /\ [][C13_Step]_vars

\* C13 witness: the three blocks of a stream were written and read, and the
\* three records 1, 2, 3 sent, in a run without cancellation.
C13_Witness ==
    /\ opts.input = InputOneStream
    /\ ~ctxDone
    /\ progressLog = <<1, 2, 3>>
    /\ output = Serial.plain

\* The start of input the stream format allows, with a selector in lo..hi.
HeaderAllowed(b, lo, hi) ==
    /\ Len(b) >= 4
    /\ SubSeq(b, 1, 3) = <<66, 90, 104>>
    /\ b[4] \in lo .. hi

\* The header error that corresponds to a start of input not allowed.
HeaderError(b) ==
    IF Len(b) = 0 THEN "failed to read stream header"
    ELSE IF Len(b) < 4 THEN "stream header is too small"
    ELSE IF SubSeq(b, 1, 2) # <<66, 90>> THEN "wrong file magic"
    ELSE IF b[3] # 104 THEN "wrong version"
    ELSE "bad block size"

\* What the first Scan has done with a start of input, for the selectors
\* lo..hi: accepted it and set the block size, or returned false with no
\* block and the header error.
FirstScanChecksHeader(lo, hi) ==
    (calls = 1 /\ ~ctxDone /\ scInput.kind = "header") =>
        IF HeaderAllowed(scInput.bytes, lo, hi)
        THEN /\ scanner.err = "nil"
             /\ scanner.ret = "true"
             /\ scanner.blockSize = (scInput.bytes[4] - 48) * 100000
        ELSE /\ scanner.ret = "false"
             /\ emitted = <<>>
             /\ scanner.err = HeaderError(scInput.bytes)

\* C14: the first Scan accepts a stream only if it starts with 0x42 0x5a, 'h'
\* and a selector in '1'..'9' (49..57), and then sets the block size to
\* selector x 100000; for any other start it returns false, emits no block
\* and Err is the corresponding header error.
C14_FirstScanChecksHeader == FirstScanChecksHeader(49, 57)

\* C14, what holds instead: the same with the selectors '0'..'9'.
C14_FirstScanAcceptsSelector0 == FirstScanChecksHeader(48, 57)

\* Err is nil before the first Scan, and stays nil on a valid input while the
\* context is not cancelled.
C15_NoErrorNoErr ==
    /\ calls = 0 => scanner.err = "nil"
    /\ (scInput.kind = "valid" /\ ~ctxDone) => scanner.err = "nil"

\* An error is recorded only by a Scan that returns false and emits nothing;
\* a Scan after it returns false, emits nothing, consumes nothing and leaves
\* the error as it is.
C15_Step ==
    /\ (scanner.err = "nil" /\ scanner'.err # "nil") =>
          (calls' = calls + 1 /\ scanner'.ret = "false" /\ emitted' = emitted)
    /\ (scanner.err # "nil" /\ calls' = calls + 1) =>
          /\ scanner'.ret = "false"
          /\ emitted' = emitted
          /\ scanner'.rd = scanner.rd
          /\ scanner'.err = scanner.err
    /\ scanner.err # "nil" => scanner'.err = scanner.err

\* C15: once a Scan has recorded an error every later Scan returns false
\* without emitting a block or consuming input and Err keeps that first
\* error; Err is nil as long as no error has occurred.
C15_ErrorIsSticky == []C15_NoErrorNoErr /\ [][C15_Step]_vars

\* C15 witness: the first Scan failed on a 3-byte input, two more Scans were
\* made, the second with the context cancelled, and Err is the first error.
C15_Witness ==
    /\ calls = 3
    /\ ctxDone
    /\ scInput.bytes = <<66, 90, 104>>
    /\ scanner.err = "stream header is too small"
    /\ scanner.ret = "false"

\* C16: a Scan called with the context cancelled, on a scanner neither done
\* nor failed, emits no block, returns false, consumes nothing, and Err is
\* the cancellation cause from then on.
C16_CancelledScan ==
    [][(ctxDone /\ ~scanner.done /\ scanner.err = "nil" /\ calls' = calls + 1)
        => /\ scanner'.ret = "false"
           /\ emitted' = emitted
           /\ scanner'.rd = scanner.rd
           /\ scanner'.err = Canceled]_vars

\* C16 witness: two blocks of three were emitted, the context was cancelled,
\* and the next Scan returned false with the cancellation cause.
C16_Witness ==
    /\ scInput.streams = <<StreamC, StreamB, StreamA>>
    /\ scInput.kind = "valid"
    /\ Len(emitted) = 2
    /\ calls = 3
    /\ scanner.ret = "false"
    /\ scanner.err = Canceled

RECURSIVE StreamEnds(_)
\* What the blocks of a sequence of streams are by the stream format: for
\* each block, in order, whether it is the last of its stream, the CRC
\* stored after the EOS magic of its stream and the block size of its header.
StreamEnds(streams) ==
    IF streams = <<>> THEN <<>>
    ELSE LET st == Head(streams)
         IN  [i \in 1 .. Len(st.blocks) |->
                [EOS |-> i = Len(st.blocks), StreamCRC |-> st.crc,
                 StreamBlockSize |-> st.sel * 100000]]
             \o StreamEnds(Tail(streams))

\* C17, on the inputs without an empty stream: when the scanner has ended a
\* valid input without error, the blocks it emitted are those of the streams,
\* a block is flagged stream end iff it is the last of its stream (the last
\* block of the final stream too), its stream CRC then is the one stored
\* after that stream's EOS magic, and the block size of each block is that of
\* its own stream's header.
C17_StreamEndFlags ==
    (/\ scInput.kind = "valid"
     /\ \A k \in 1 .. Len(scInput.streams) : scInput.streams[k].blocks # <<>>
     /\ scanner.ret = "false"
     /\ scanner.err = "nil") =>
        LET ends == StreamEnds(scInput.streams)
        IN  /\ Len(emitted) = Len(ends)
            /\ \A i \in 1 .. Len(ends) :
                  /\ emitted[i].EOS = ends[i].EOS
                  /\ ends[i].EOS => emitted[i].StreamCRC = ends[i].StreamCRC
                  /\ emitted[i].StreamBlockSize = ends[i].StreamBlockSize

\* The scanner's results on the inputs made of the one-block stream and
\* empty streams, with the plaintext of the input less its empty streams.
WithEmptyStreams ==
    {[input |-> InputEmptyThenStream, before |-> TRUE, plain |-> <<5>>],
     [input |-> InputStreamThenEmpty, before |-> FALSE, plain |-> <<5>>],
     [input |-> InputScannedStream, before |-> FALSE, plain |-> <<5>>]}

\* C18: empty streams are transparent: a reader of a valid input with empty
\* streams before or after its streams ends, without cancellation, with EOF
\* and the plaintext of the input without them.
C18_EmptyStreamsTransparent ==
    \A c \in WithEmptyStreams :
        (opts.input = c.input /\ result # "none" /\ ~ctxDone)
            => (result = "EOF" /\ output = c.plain)

\* C18, what holds instead: the same for empty streams after the last
\* stream only.
C18_TrailingEmptyStreamsTransparent ==
    \A c \in WithEmptyStreams :
        (~c.before /\ opts.input = c.input /\ result # "none" /\ ~ctxDone)
            => (result = "EOF" /\ output = c.plain)

\* C19: on a stream header followed only by an EOS record with CRC 0 the
\* scanner emits no block and reports no error, a block reader over no data
\* reads nothing, and the reader of that input returns no plaintext and,
\* without cancellation, ends with EOF.
C19_EmptyStreamYieldsEOF ==
    /\ InputEmptyStream = [blocks |-> <<>>, scanErr |-> "nil"]
    /\ DecodeData(<<>>, 0) = [plain |-> <<>>, err |-> "nil"]
    /\ opts.input = InputEmptyStream =>
          /\ output = <<>>
          /\ scanned = 0
          /\ ~ctxDone => scErr = "nil"
          /\ (result # "none" /\ ~ctxDone) => result = "EOF"

\* C19's case: the reader of the empty stream has returned EOF.
C19_Witness ==
    /\ opts.input = InputEmptyStream
    /\ ~ctxDone
    /\ pc = "exit"
    /\ scErr = "nil"
    /\ result = "EOF"
    /\ output = <<>>

\* Scan has reached the end of an input cut short without cancellation: the
\* call that would have emitted the last block of the input was made.  With
\* empty: inputs that begin with an empty stream as well.
AtEndOfCutInput(empty) ==
    /\ scInput.kind = "cut"
    /\ ~ctxDone
    /\ empty \/ scInput.streams[1] # EmptyStream
    /\ calls >= Len(StreamEnds(scInput.streams))
    /\ calls >= 1

\* Scan found the input truncated: it returned false with the trailer
\* error, and the last block of the input was not emitted.
TruncationReported ==
    /\ scanner.ret = "false"
    /\ scanner.err = "failed to find trailer"
    /\ Len(emitted) <= calls - 1
    /\ Len(emitted) < Len(StreamEnds(scInput.streams)) \/ emitted = <<>>

\* C20: on a valid input with its last 1 to 7 bytes cut off, the Scan that
\* reaches the end of the input emits no block, returns false and sets Err
\* to "failed to find trailer": the input is never reported as ended cleanly.
C20_TruncationNeverClean == AtEndOfCutInput(TRUE) => TruncationReported

\* C20, what holds instead: the same for inputs that do not begin with an
\* empty stream.
C20_TruncationAfterBlockNeverClean == AtEndOfCutInput(FALSE) => TruncationReported

\* What the last Read of the block reader says of its block: every decoded
\* byte was delivered before it, EOF with the CRC of the bytes equal to the
\* one stored, "block checksum mismatch" with another; it is what io.ReadAll
\* makes of the block.
BlockReadResult ==
    LET rb == ReadBlock(blockReader.src, blockReader.start)
    IN  /\ blockReader.ret = "nil" =>
              (rb.err = "nil" /\ blockReader.fed \o blockReader.rest = rb.tt)
        /\ blockReader.ret = "EOF" =>
              \/ blockReader.src = <<>>
              \/ /\ rb.err = "nil"
                 /\ blockReader.rest = <<>>
                 /\ blockReader.fed = rb.tt
                 /\ Checksum(rb.tt) = rb.want
        /\ blockReader.ret = "block checksum mismatch" =>
              /\ rb.err = "nil"
              /\ blockReader.rest = <<>>
              /\ blockReader.fed = rb.tt
              /\ Checksum(rb.tt) # rb.want
        /\ blockReader.ret \notin {"none", "nil"} =>
              DecodeData(blockReader.src, blockReader.start)
                  = [plain |-> blockReader.fed,
                     err |-> IF blockReader.ret = "EOF" THEN "nil" ELSE blockReader.ret]

\* A Read of the block reader after its last byte is final: it returns no
\* byte, and a mismatch is never followed by EOF.
BlockReadFinal ==
    /\ blockReader'.ret \in {"EOF", "block checksum mismatch"} => blockReader'.n = 0
    /\ blockReader.ret = "block checksum mismatch" => blockReader'.ret # "EOF"
    /\ blockReader'.fed = blockReader.fed \o SubSeq(blockReader'.fed,
                              Len(blockReader.fed) + 1, Len(blockReader'.fed))
    /\ Len(blockReader'.fed) = Len(blockReader.fed) + blockReader'.n

\* C21: a block reader delivers all the decoded bytes of its block and only
\* then compares their CRC with the one stored: the final Read returns
\* "block checksum mismatch" when they differ and EOF when they are equal,
\* never EOF for a block whose CRC does not match.
C21_CRCComparedAfterLastByte == []BlockReadResult /\ [][BlockReadFinal]_vars

\* C21's case: every byte of a block with a wrong CRC was read, in more than
\* one Read, and the last Read returned the mismatch.
C21_Witness ==
    /\ blockReader.src = <<Junk, 32770, 3, 2, 7, 5, EndSym>>
    /\ blockReader.fed = <<2, 7, 5>>
    /\ blockReader.ret = "block checksum mismatch"

\* assemble returns from waitForChannelToClose.
AssembleStopsWaiting == apc = "waitForChannelToClose" /\ apc' = "exit"

\* Every goroutine of the pipeline has returned, and Finish with them.
PipelineReturned ==
    /\ pc = "exit"
    /\ apc = "exit"
    /\ \A w \in Workers : wpc[w] = "exit"

DecodeErrorOf(n) == DecodeData(Blocks[n].Data, Blocks[n].BitOffset).err
PlainBefore(n) == SerialFrom(SubSeq(Blocks, 1, n - 1), 1, Zero32).plain

\* assemble gives up on a block that did not decode: the merged payload does
\* not decode either, or the done queue is closed and holds no successor.
MergeFails ==
    /\ apc = "tryMergeBlocks"
    /\ apc' = "waitForChannelToClose"
    /\ heap # {} \/ (doneCh.buf = <<>> /\ doneCh.closed)
    /\ ~ctxDone

\* assemble has given up on block min.order.
GaveUpOnBlock ==
    /\ apc \in {"waitForChannelToClose", "exit"}
    /\ min # NoBlock
    /\ min.err # "nil"

\* C23: when block n fails to decode and the merge with block n+1 fails too,
\* the output sink, open until then, is closed with the error block n gave when
\* decoded alone, not with the error of the merge attempt; nothing of block n
\* or of a later block is ever written: no Write is pending and the plaintext
\* read is a prefix of the plaintext of the blocks before n.
C23_ClosedWithOriginalError ==
    /\ [](GaveUpOnBlock => /\ wbuf = <<>>
                           /\ pipe.done
                           /\ IsPrefix(output, PlainBefore(min.order))
                           /\ expected = min.order + 1)
    /\ [][MergeFails /\ ~pipe.done
            => pipe'.done /\ pipe'.werr = DecodeErrorOf(min.order)]_vars
    /\ [][GaveUpOnBlock => GaveUpOnBlock' /\ wbuf' = wbuf /\ min'.order = min.order]_vars

\* Block 2 did not decode alone ("bzip2 data invalid"), the merge with block 3
\* gave a checksum mismatch, and the sink holds the error of block 2.
C23_Witness ==
    /\ opts.input = InputSplitCorrupted
    /\ GaveUpOnBlock
    /\ min.order = 2
    /\ min.err = "block checksum mismatch"
    /\ pipe.werr = "bzip2 data invalid"
    /\ output = <<1>>

\* The last block of the input did not decode and the done queue was closed
\* with no successor in it.
C23_WitnessNoSuccessor ==
    /\ opts.input = InputCorruptedLast
    /\ GaveUpOnBlock
    /\ doneCh.closed
    /\ pipe.werr = "block checksum mismatch"

\* The tasks that hold the descriptor of block n: it is in the work queue,
\* with a worker, in the done queue or on the assembler's heap.
InQueue(ch, n) == {i \in DOMAIN ch.buf : ch.buf[i].order = n}
HeldBy(n) == {w \in Workers : wblock[w] # NoBlock /\ wblock[w].order = n}
Holders(n) ==
    Cardinality(InQueue(workCh, n)) + Cardinality(HeldBy(n))
        + Cardinality(InQueue(doneCh, n)) + Cardinality({b \in heap : b.order = n})

\* How far block n has come: 0 not appended, 1 in the work queue, 2 with a
\* worker that has yet to decode it, 3 decoded and with its worker, 4 in the
\* done queue, 5 on the heap, 6 taken by the assembler or dropped.
Stage(n) ==
    IF n > order THEN 0
    ELSE IF InQueue(workCh, n) # {} THEN 1
    ELSE IF \E w \in HeldBy(n) : wpc[w] # "send" THEN 2
    ELSE IF HeldBy(n) # {} THEN 3
    ELSE IF InQueue(doneCh, n) # {} THEN 4
    ELSE IF \E b \in heap : b.order = n THEN 5
    ELSE 6

\* The plaintext of the first n blocks, each decoded alone.
RECURSIVE PlainOfEach(_)
PlainOfEach(n) ==
    IF n = 0 THEN <<>>
    ELSE PlainOfEach(n - 1) \o DecodeData(Blocks[n].Data, Blocks[n].BitOffset).plain

\* The run came to its end with no error and no cancellation.
CleanEnd == pc = "exit" /\ pipe.werr = "EOF" /\ ~ctxDone /\ finishErr = "nil"

\* C24: the descriptor of a block is in one place at a time (the work queue,
\* one worker, the done queue, the assembler), it only moves forward through
\* them and so is decoded by one worker, once; a run that ends without error
\* or cancellation has taken every appended block through all of them and,
\* where every block decodes alone, has written the plaintext of each block
\* once, in order.
C24_EachBlockOnce ==
    /\ [](\A n \in 1 .. Len(Blocks) : Holders(n) <= 1)
    /\ [][\A n \in 1 .. Len(Blocks) :
            /\ Stage(n)' >= Stage(n)
            /\ (Stage(n) = 2 /\ Stage(n)' # 2 /\ ~ctxDone) => Stage(n)' = 3
            /\ (Stage(n) < 2 /\ Stage(n)' >= 2 /\ ~ctxDone) => Stage(n)' = 2]_vars
    /\ [](CleanEnd => /\ order = Len(Blocks)
                      /\ \A n \in 1 .. Len(Blocks) : Stage(n) = 6
                      /\ (\A n \in 1 .. Len(Blocks) : DecodeErrorOf(n) = "nil")
                            => output = PlainOfEach(Len(Blocks)))

\* Two workers hold blocks 1 and 2 while block 3 waits in the work queue.
C24_Witness ==
    /\ opts.input = InputOneStream
    /\ opts.concurrency = 2
    /\ Stage(1) = 3
    /\ Stage(2) = 2
    /\ Stage(3) = 1

\* The same run at its end: every block written once.
C24_WitnessEnd ==
    /\ opts.input = InputOneStream
    /\ opts.concurrency = 2
    /\ CleanEnd
    /\ output = <<1, 2, 3>>

\* Append has put a block in the work queue.
Enqueued == Len(workCh'.buf) > Len(workCh.buf)

\* C25: the k-th block submitted gets the ordinal k, from 1 on: the block
\* Append puts in the work queue is the k-th block of the input with ordinal
\* k = order, one more than the ordinal given before, and the work queue holds
\* consecutive ordinals in increasing order, the last of them the ordinal
\* given last unless an Append has failed.
C25_OrdinalsInSequence ==
    /\ [](\A i \in DOMAIN workCh.buf :
            /\ workCh.buf[i].order >= 1
            /\ workCh.buf[i] = NewBlockDesc(Blocks[workCh.buf[i].order],
                                            workCh.buf[i].order)
            /\ i > 1 => workCh.buf[i].order = workCh.buf[i - 1].order + 1)
    /\ [](workCh.buf # <<>> /\ retErr # Canceled
            => workCh.buf[Len(workCh.buf)].order = order)
    /\ [][Enqueued => /\ workCh'.buf = Append(workCh.buf, workCh'.buf[Len(workCh'.buf)])
                      /\ workCh'.buf[Len(workCh'.buf)].order = order + 1
                      /\ order' = order + 1
                      /\ order' = scanned]_vars

\* Blocks 2 and 3 wait in the work queue, in this order.
C25_Witness ==
    /\ Len(workCh.buf) = 2
    /\ workCh.buf[1].order = 2
    /\ workCh.buf[2].order = 3
    /\ order = 3

\* The bytes Scan peeks at: the input left, after the stream header and the
\* block magic that follows it on the first call.
LookAhead(sc) ==
    IF ~sc.first THEN sc.rd
    ELSE IF HasPrefix(Slice(sc.rd, 4, Len(sc.rd)), BlockMagic)
    THEN Slice(sc.rd, 4 + Len(BlockMagic), Len(sc.rd))
    ELSE Slice(sc.rd, 4, Len(sc.rd))

\* The bit of the input at which the last block magic read ended.
BitPosition(sc, la) ==
    8 * (Len(scInput.bytes) - Len(la))
        + (IF sc.first THEN 0 ELSE sc.prevBitOffset)

\* A Scan that returned true with a block that is not the last of the input.
ScannedNonTerminal ==
    /\ calls' = calls + 1
    /\ scanner'.ret = "true"
    /\ ~scanner'.done

\* What holds of such a block, found being the position of the next block
\* magic in the look-ahead la and prev the bit offset the previous magic
\* ended at.
BlockGeometry(la, found, prev, b) ==
    /\ found[1] # -1
    /\ b.BitOffset = prev
    /\ b.SizeInBits = 8 * found[1] + found[2] - prev
    /\ Len(la) - Len(scanner'.rd) = found[1] + 6
    /\ scanner'.prevBitOffset = found[2]
    /\ BitsOf(b.Data, b.BitOffset, b.SizeInBits)
            = BitsOf(scInput.bytes, BitPosition(scanner, la), b.SizeInBits)
    /\ BitsOf(scInput.bytes, BitPosition(scanner, la) + b.SizeInBits, 48)
            = ToBits(BlockMagic)
    /\ BitPosition(scanner', scanner'.rd)
            = BitPosition(scanner, la) + b.SizeInBits + 48

\* C26: a block that is not the last of the input starts at the bit offset
\* the previous block magic ended at, has 8*byte_offset + bit_offset less that
\* offset bits, (byte_offset, bit_offset) being the position of the next block
\* magic in the look-ahead, and Scan consumes byte_offset + 6 bytes; the
\* block's bits are the bits of the input from the end of the previous magic
\* to the start of the next, the 48 bits after them are the block magic, and
\* the next block starts right after these.
C26_BlocksTileTheInput ==
    [][ScannedNonTerminal
        => BlockGeometry(LookAhead(scanner), ScanMagic(LookAhead(scanner)),
                         IF scanner.first THEN 0 ELSE scanner.prevBitOffset,
                         ScannerBlock(scanner'))]_vars

\* The second block of the input, not its last: the first ended inside a
\* byte, so the magic before the second ended at a bit offset that is not 0.
C26_Witness ==
    /\ scanner.ret = "true"
    /\ ~scanner.done
    /\ Len(emitted) = 2
    /\ emitted[1].BitOffset = 0
    /\ emitted[2].BitOffset > 0
    /\ emitted[2].SizeInBits > 0

\* A Scan that found no further block magic and returned the last block.
ScannedLast ==
    /\ calls' = calls + 1
    /\ scanner'.ret = "true"
    /\ scanner'.done

\* What handleEOF makes of the look-ahead la, t being the result of the
\* trailer search in it and prev the bit offset the previous magic ended at.
LastBlockGeometry(la, t, prev, b) ==
    /\ ScanMagic(la)[1] = -1
    /\ t.length = 10
    /\ b.Data = Slice(la, 0, Len(la) - 10)
    /\ b.BitOffset = prev
    /\ b.StreamCRC = t.crc
    /\ b.SizeInBits = 8 * Len(b.Data)
                        + (IF t.offsetInBits = 0 THEN 0 ELSE t.offsetInBits - 8) - prev

\* A scanner that is done returns false with no error.
DoneScannerReturnsFalse ==
    (calls' = calls + 1 /\ scanner.done)
        => (scanner'.ret = "false" /\ scanner'.err = "nil" /\ scanner'.done)

\* C27: with no further block magic and the input at its end, Scan emits the
\* bytes left without the 10 bytes of the trailer as the last block, at the
\* previous bit offset, flagged stream end, with the stream CRC of the
\* trailer and 8*len(data) + (t = 0 ? 0 : t - 8) - previous bit offset bits;
\* the scanner is then done and the next Scan returns false with Err nil.
C27_LastBlock ==
    /\ [][ScannedLast
            => /\ LastBlockGeometry(LookAhead(scanner),
                       FindTrailingMagicAndCRC(LookAhead(scanner), EOSMagic),
                       IF scanner.first THEN 0 ELSE scanner.prevBitOffset,
                       ScannerBlock(scanner'))
               /\ ScannerBlock(scanner').EOS]_vars
    /\ [][DoneScannerReturnsFalse]_vars

\* The same without the stream end flag, which handleEOF does not set.
C27_LastBlockButStreamEnd ==
    /\ [][ScannedLast
            => LastBlockGeometry(LookAhead(scanner),
                   FindTrailingMagicAndCRC(LookAhead(scanner), EOSMagic),
                   IF scanner.first THEN 0 ELSE scanner.prevBitOffset,
                   ScannerBlock(scanner'))]_vars
    /\ [][DoneScannerReturnsFalse]_vars

\* The bit positions at which the 48 bits of the magic occur in a buffer.
Occurrences(input) ==
    {q \in 0 .. (8 * Len(input) - 48) : BitsOf(input, q, 48) = MagicBits}

\* The least of a non-empty set of numbers.
Least(S) == CHOOSE q \in S : \A r \in S : q <= r

\* C29: for a buffer whose earliest occurrence of the 48 bits of the magic
\* starts at bit p, at whatever byte and shift, Scan returns (p div 8, p mod 8);
\* for a buffer with no complete occurrence it returns (-1, -1).
C29_ScanFindsEarliestMagic ==
    magicScan.ret # <<>> =>
        magicScan.ret =
            IF Occurrences(magicScan.input) = {} THEN <<-1, -1>>
            ELSE <<Least(Occurrences(magicScan.input)) \div 8,
                   Least(Occurrences(magicScan.input)) % 8>>

\* The magic found at a shift in the last 7 bytes of a buffer that starts
\* with a prefix of the magic.
C29_Witness ==
    /\ magicScan.ret # <<>>
    /\ magicScan.ret[1] = Len(magicScan.input) - 7
    /\ magicScan.ret[2] > 0
    /\ magicScan.ret[1] >= 4
    /\ BitsOf(magicScan.input, 3, 32) = SubSeq(MagicBits, 1, 32)

\* No complete occurrence: a buffer that ends one byte short of the magic
\* at a shift.
C29_WitnessNone ==
    /\ magicScan.ret = <<-1, -1>>
    /\ Len(magicScan.input) = 6
    /\ BitsOf(magicScan.input, 5, 43) = SubSeq(MagicBits, 1, 43)

\* The numbers k of padding bits, 0..7, with which a buffer ends with the EOS
\* magic, 32 bits and k bits.
Paddings(input) ==
    {k \in 0 .. 7 : /\ 8 * Len(input) >= 80 + k
                    /\ BitsOf(input, 8 * Len(input) - 80 - k, 48) = EOSBits}

\* The 4 bytes of the CRC before k bits of padding.
TrailerCRC(input, k) == FromBits(BitsOf(input, 8 * Len(input) - 32 - k, 32))

NoTrailer == [crc |-> <<>>, length |-> -1, offsetInBits |-> -1]

\* C30: for a buffer that ends with the EOS magic, a CRC and k bits of
\* padding, k in 0..7, the result is the 4 bytes of the CRC, 10 and k; with no
\* such end, or less than 10 bytes, it is (nil, -1, -1) (the statement as
\* written).
C30_ReturnsPaddingBits ==
    trailerScan.ret # <<>> =>
        trailerScan.ret =
            IF Paddings(trailerScan.input) = {} THEN NoTrailer
            ELSE [crc |-> TrailerCRC(trailerScan.input, Least(Paddings(trailerScan.input))),
                  length |-> 10,
                  offsetInBits |-> Least(Paddings(trailerScan.input))]

\* The bit offset at which a trailer followed by k bits of padding starts in
\* its first byte.
TrailerBitOffset(k) == IF k = 0 THEN 0 ELSE 8 - k

\* C30, as the code has it: the third value is the bit offset of the trailer
\* in its first byte, 0 for no padding and 8 - k for k bits of padding.
C30_ReturnsTrailerBitOffset ==
    trailerScan.ret # <<>> =>
        trailerScan.ret =
            IF Paddings(trailerScan.input) = {} THEN NoTrailer
            ELSE [crc |-> TrailerCRC(trailerScan.input, Least(Paddings(trailerScan.input))),
                  length |-> 10,
                  offsetInBits |-> TrailerBitOffset(Least(Paddings(trailerScan.input)))]

\* A trailer before 7 bits of padding, found with offset 1.
C30_Witness ==
    /\ Paddings(trailerScan.input) = {7}
    /\ trailerScan.ret = [crc |-> <<1, 2, 3, 4>>, length |-> 10, offsetInBits |-> 1]

\* C28: Data() of a BitWriter, read as a bit stream from bit 0, is the initial
\* bits followed by the slices appended, in the order of the calls, and its
\* length in bits is the initial length plus the lengths of the slices.
C28_BitsInCallOrder ==
    /\ bitWriter.bw.lenInBits = Len(bitWriter.want)
    /\ BitsOf(bitWriter.bw.buf, 0, bitWriter.bw.lenInBits) = bitWriter.want

\* The same after one Append, and of the length after any number of them.
C28_FirstAppendInOrder ==
    /\ bitWriter.bw.lenInBits = Len(bitWriter.want)
    /\ bitWriter.appends <= 1
            => BitsOf(bitWriter.bw.buf, 0, bitWriter.bw.lenInBits) = bitWriter.want

\* The buffer holds a byte more than its bits fill.
C28_ByteTooMany ==
    /\ bitWriter.appends = 1
    /\ Len(bitWriter.bw.buf) > (bitWriter.bw.lenInBits + 7) \div 8

\* Block n, taken from the heap with a decode error, waits in tryMergeBlocks
\* for its successor, and block n + 1 is in the done queue or in the heap.
SuccessorArrived ==
    /\ apc \in {"tryMergeBlocks", "tryMergeBlocks: spin"}
    /\ \E b \in heap \cup {doneCh.buf[i] : i \in DOMAIN doneCh.buf} :
            b.order = min.order + 1

\* tryMergeBlocks has returned: true after a merge, and assemble writes the
\* merged block, or false, and assemble has closed the sink with an error.
MergedOrReported ==
    \/ apc = "Write"
    \/ apc \in {"waitForChannelToClose", "exit"} /\ pipe.done /\ pipe.werr # "EOF"

\* C31: when block n has failed to decode and block n + 1 has reached the
\* done queue, the assembler eventually merges n with n + 1 or reports the
\* failure, whatever blocks are in the heap.
C31_MergeOrReport == SuccessorArrived ~> MergedOrReported

\* C31, what holds instead: it does unless a block after n + 1 is on the
\* heap, with which the loop of tryMergeBlocks neither receives nor ends.
C31_MergeOrReportUnlessSpin ==
    SuccessorArrived ~> (MergedOrReported \/ apc = "tryMergeBlocks: spin")

\* The successor arrives after a later block and stays in the done queue.
C31_SpinsWithSuccessorQueued ==
    /\ apc = "tryMergeBlocks: spin"
    /\ min.order = 1
    /\ {b.order : b \in heap} = {3}
    /\ Len(doneCh.buf) = 1 /\ doneCh.buf[1].order = 2

\* assemble has written block n merged with block n + 1, the terminal block
\* of its stream, and calls handlePossibleEOS.
MergedWithStreamEnd ==
    /\ apc = "handlePossibleEOS"
    /\ expected = min.order + 2
    /\ Blocks[min.order + 1].EOS

\* C32: after a merge of block n with the terminal block n + 1 of a stream,
\* the running stream CRC is compared with the CRC stored for that stream:
\* when they are equal it is reset to 0, so that the next stream starts from
\* 0, and when they differ the stream CRC error is reported.
C32_MergeKeepsStreamEnd ==
    [][(MergedWithStreamEnd /\ apc' # apc) =>
            IF updateStreamCRC(streamCRC, min.CRC) = Blocks[min.order + 1].StreamCRC
            THEN streamCRC' = Zero32 /\ pipe' = pipe
            ELSE pipe'.done /\ apc' = "waitForChannelToClose"]_vars

\* The consequence for a valid input: a stream follows the one that ends
\* with the merged block, and every byte of both was written, yet the sink
\* is closed with the stream CRC error.
C32_ValidInputRejected ==
    /\ opts.input = InputSplitThenStream
    /\ ~ctxDone
    /\ Serial = [plain |-> <<4, 7, 5, 3>>, err |-> "nil"]
    /\ output = Serial.plain
    /\ pipe.werr = "mismatched stream CRCs"

\* C32, what holds of a merge: the merged block keeps the stream end flag
\* and the stored stream CRC of block n.
C32_MergeKeepsHeadFlags ==
    [][(apc = "tryMergeBlocks" /\ apc' = "Write") =>
            /\ min'.EOS = min.EOS
            /\ min'.StreamCRC = min.StreamCRC
            /\ min'.CRC = min.CRC]_vars

\* The blocks appended and not yet taken by the assembler to be written:
\* those in the work queue, with a worker, in the done queue or on the heap.
InFlight == {n \in 1 .. order : Stage(n) \in 1 .. 5}

\* What the queues and the workers can hold: the capacity of the work queue,
\* a block for each worker and the capacity of the done queue.
QueuesAndWorkers == 3 * opts.concurrency

\* C33: the number of blocks appended and not yet written is bounded by a
\* constant that depends on the concurrency only, here by what the two
\* queues and the workers hold, also while the worker that decodes the next
\* expected block is slow.
C33_BufferingBounded == Cardinality(InFlight) <= QueuesAndWorkers

\* C33, what holds instead: the bound is that of the blocks outside the
\* heap, and the heap holds blocks that are not expected yet.
C33_BoundedOutsideHeap ==
    /\ Cardinality(InFlight) - Cardinality(heap) <= QueuesAndWorkers
    /\ \A b \in heap : b.order >= expected

\* The first block is still with its worker, every other block of the input
\* was decoded by the other worker and is on the heap.
C33_HeapHoldsAllButFirst ==
    /\ Stage(1) = 2
    /\ {b.order : b \in heap} = 2 .. ManyBlocks
    /\ output = <<>>

RECURSIVE ScanToEnd(_, _, _)
\* for sc.Scan(ctx) { ... }: the scanner after the call that returned false
\* and the blocks of the calls before it.
ScanToEnd(sc, blocks, fuel) ==
    LET next == ScannerScan(sc, FALSE)
    IN  IF next.ret = "true" /\ fuel > 0
        THEN ScanToEnd(next, Append(blocks, ScannerBlock(next)), fuel - 1)
        ELSE [sc |-> next, blocks |-> blocks]

\* The same input scanned from a source that returns everything at once.
WholeRead == ScanToEnd(NewScanner(scInput.bytes), <<>>, MaxScanCalls)

\* The header, the blocks and the error are those of the scan of the source
\* that returns everything.
SameAsWholeRead ==
    /\ emitted = WholeRead.blocks
    /\ scanner.err = WholeRead.sc.err
    /\ scanner.header = WholeRead.sc.header
    /\ scanner.blockSize = WholeRead.sc.blockSize

\* The loop of the caller ends: Scan returns false for the first time and
\* the context is not cancelled.
ScanEnded == scanner.ret = "false" /\ calls = Len(emitted) + 1 /\ ~ctxDone

\* C34: for a valid input, a source that returns its bytes in reads of any
\* size, also less than 4 bytes for the first, gives the header, the blocks
\* and the error (none) of a source that returns everything at once.
C34_ReadSizeDoesNotMatter == ScanEnded => SameAsWholeRead

\* C34, what holds instead: it does when the first Read returns the 4 bytes
\* of the header.
C34_ReadsOfFourOrMore == (ScanEnded /\ scanner.readMax >= 4) => SameAsWholeRead

\* A one-block stream read a byte at a time: the first Scan fails on the
\* header, of which one byte was read, and no block is emitted.
C34_HeaderTooSmall ==
    /\ scInput.streams = <<StreamA>>
    /\ scanner.readMax = 1
    /\ calls = 1
    /\ ~ctxDone
    /\ scanner.err = "stream header is too small"
    /\ scanner.header = <<66, 0, 0, 0>>
    /\ emitted = <<>>
    /\ Len(WholeRead.blocks) = 1 /\ WholeRead.sc.err = "nil"

\* C35: once a call of Scan has returned false, every later call on the
\* same scanner returns false and emits no block.
C35_ScanStaysFalse ==
    [][(scanner.ret = "false" /\ calls' # calls)
            => (scanner'.ret = "false" /\ emitted' = emitted)]_vars

\* C35, what holds instead: it does after a false that set sc.err (an error,
\* a cancellation) or followed sc.done (the last block was emitted).
C35_StaysFalseAfterErrorOrDone ==
    [][(scanner.ret = "false" /\ (scanner.err # "nil" \/ scanner.done)
            /\ calls' # calls)
            => (scanner'.ret = "false" /\ emitted' = emitted)]_vars

\* The input is one stream without blocks: the first Scan returned false
\* with no error, the second returned true and emitted a block without data.
C35_TrueAfterEmptyStream ==
    /\ scInput.streams = <<EmptyStream>>
    /\ scInput.kind = "valid"
    /\ calls = 2
    /\ scanner.ret = "true"
    /\ scanner.err = "nil"
    /\ Len(emitted) = 1
    /\ emitted[1].Data = <<>>

RECURSIVE BlocksOf(_)
\* The blocks of a sequence of streams, in order, each as its bits.
BlocksOf(streams) ==
    IF streams = <<>> THEN <<>>
    ELSE Head(streams).blocks \o BlocksOf(Tail(streams))

\* A descriptor addresses bits of its own data.
WellFormed(b) ==
    /\ b.BitOffset \in 0 .. 7
    /\ b.SizeInBits >= 0
    /\ b.BitOffset + b.SizeInBits <= 8 * Len(b.Data)

\* The bits a descriptor addresses.
Addressed(b) == BitsOf(b.Data, b.BitOffset, b.SizeInBits)

\* C36: every block descriptor the scanner emits has a bit offset in 0..7, a
\* size in bits that is not negative and bit offset + size within its data,
\* and, on a valid input (here without empty streams), the bits it addresses
\* are those of a block of the input, without bits of a magic, a trailer or a
\* stream header after it.
C36_DescriptorsWellFormed ==
    /\ \A i \in DOMAIN emitted : WellFormed(emitted[i])
    /\ (/\ scInput.kind = "valid"
        /\ \A k \in 1 .. Len(scInput.streams) : scInput.streams[k].blocks # <<>>)
            => \A i \in DOMAIN emitted :
                    /\ i <= Len(BlocksOf(scInput.streams))
                    /\ Addressed(emitted[i]) = BlocksOf(scInput.streams)[i]

\* C36, what holds instead: the bit offset is in 0..7 and bit offset + size
\* is within the data; on a valid input the size is not negative and a block
\* that is not the last of its stream addresses the bits of its block.
C36_OffsetAndEndWithinData ==
    /\ \A i \in DOMAIN emitted :
            /\ emitted[i].BitOffset \in 0 .. 7
            /\ emitted[i].BitOffset + emitted[i].SizeInBits <= 8 * Len(emitted[i].Data)
    /\ (/\ scInput.kind = "valid"
        /\ \A k \in 1 .. Len(scInput.streams) : scInput.streams[k].blocks # <<>>)
            => \A i \in DOMAIN emitted :
                    /\ WellFormed(emitted[i])
                    /\ i <= Len(BlocksOf(scInput.streams))
                    /\ (~StreamEnds(scInput.streams)[i].EOS \/ i = Len(StreamEnds(scInput.streams)))
                            => Addressed(emitted[i]) = BlocksOf(scInput.streams)[i]

\* The block of stream A, with stream B after it: the descriptor addresses,
\* after the 48 bits of the block, the EOS magic, the stream CRC and the
\* header of stream B, 112 bits more.
C36_AddressesTrailerAndHeader ==
    /\ scInput.streams = <<StreamA, StreamB>>
    /\ Len(emitted) = 1
    /\ WellFormed(emitted[1])
    /\ emitted[1].SizeInBits = Len(StreamA.blocks[1]) + 112
    /\ SubSeq(Addressed(emitted[1]), Len(StreamA.blocks[1]) + 1,
              Len(StreamA.blocks[1]) + 48) = ToBits(EOSMagic)

\* The second block of the input with the overlapping magics: its size is
\* -3 bits.
C36_NegativeSize ==
    /\ scInput.kind = "overlap"
    /\ Len(emitted) = 2
    /\ emitted[2].BitOffset = 5
    /\ emitted[2].SizeInBits = -3

\* C37: on every input, valid or not, a call of Scan returns true or false:
\* the extraction of the block CRC does not reach outside the data of the
\* block, whatever its length, and a block of less than 4 bytes has CRC 0.
C37_ScanReturns ==
    /\ scanner.ret \in {"none", "true", "false"}
    /\ \A i \in DOMAIN emitted :
            Len(emitted[i].Data) < 4 => emitted[i].CRC = <<0, 0, 0, 0>>

\* C37, what holds instead: Scan returns unless the data of the block found
\* is 4 bytes long, and then it panics.
C37_ReturnsUnlessFourBytes ==
    /\ scanner.ret \in {"none", "true", "false", "panic"}
    /\ scanner.ret = "panic" <=> scanner.panic
    /\ [][(scanner'.panic /\ ~scanner.panic) =>
            \/ LET found == ScanMagic(LookAhead(scanner))
               IN  found[1] # -1 /\ found[1] + (IF found[2] > 0 THEN 1 ELSE 0) = 4
            \/ /\ ScanMagic(LookAhead(scanner))[1] = -1
               /\ Len(LookAhead(scanner)) - 10 = 4]_vars
    /\ \A i \in DOMAIN emitted :
            /\ Len(emitted[i].Data) # 4
            /\ Len(emitted[i].Data) < 4 => emitted[i].CRC = <<0, 0, 0, 0>>

\* Scan panicked on its first call, on a block of 4 bytes before a block
\* magic and on one before the trailer.
C37_Panicked ==
    /\ scanner.panic
    /\ calls = 1
    /\ emitted = <<>>
    /\ Len(scInput.bytes) = 36

C37_PanickedAtEnd ==
    /\ scanner.panic
    /\ calls = 1
    /\ Len(scInput.bytes) = 24

\* Blocks of less than 4 bytes and of 5 bytes and more were emitted.
C37_ShortAndLongBlocks ==
    /\ \E i \in DOMAIN emitted : Len(emitted[i].Data) \in 1 .. 3
    /\ \E i \in DOMAIN emitted : Len(emitted[i].Data) >= 5

\* The buffer of the BitWriter is as many bytes as hold its bits.
BufferFits(bw) == Len(bw.buf) = (bw.lenInBits + 7) \div 8

\* C38: a BitWriter initialised with as many bytes as hold its bits has,
\* after every Append, a buffer of ceil(length in bits / 8) bytes, so the
\* last byte of the buffer is the one that holds its last bit; so it is
\* after the two appends of a block merge.
C38_BufferHoldsItsBits == BufferFits(bitWriter.bw)

\* C38, what holds instead: an Append of whole bytes at bit offset 0, as
\* that of the block magic, keeps the buffer at the bytes of its bits.
C38_WholeBytesKeepTheFit ==
    [][(/\ bitWriter'.appends = bitWriter.appends + 1
        /\ BufferFits(bitWriter.bw)
        /\ bitWriter'.slices[bitWriter'.appends].offsetBits = 0
        /\ bitWriter'.slices[bitWriter'.appends].lenBits % 8 = 0)
            => BufferFits(bitWriter'.bw)]_vars

\* The two appends of a merge, to 5 bits: after the 48 bits of the block
\* magic the buffer holds its 53 bits in 7 bytes, and after 2 bits taken at
\* bit offset 0 it holds 55 bits in 8 bytes.
C38_SurplusAfterMerge ==
    /\ bitWriter.appends = 2
    /\ bitWriter.slices = <<[offsetBits |-> 0, lenBits |-> 48],
                            [offsetBits |-> 0, lenBits |-> 2]>>
    /\ bitWriter.bw.lenInBits = 55
    /\ Len(bitWriter.bw.buf) = 8
    /\ BitsOf(bitWriter.bw.buf, 0, 55) = bitWriter.want

====
